---- MODULE Spec2Model ----
(***************************************************************************)
(* Model of the godernize analyzers (github.com/jaeyeom/godernize).        *)
(*                                                                         *)
(* The ctxnil analyzer walks one Go file in preorder, visiting every       *)
(* *ast.IfStmt and *ast.BinaryExpr.  For an if statement it folds the      *)
(* guard (buildReplacementCondition) and reports a diagnostic with one     *)
(* text edit; for a binary expression that compares a context.Context      *)
(* value with nil it reports a bare diagnostic, unless the expression was  *)
(* marked processed by an enclosing reported if statement.  Both are       *)
(* subject to //godernize:ignore directives (package directive).           *)
(*                                                                         *)
(* Source text is modelled as TLA+ strings, positions as token.Pos         *)
(* integers computed from the lengths of the source text.                  *)
(***************************************************************************)
EXTENDS Integers, Sequences, FiniteSets, TLC

VARIABLES
    file,            \* the *ast.File under analysis (pass.Files / pass.Fset)
    pc,              \* position of run: "start", "walk", "done"
    fileMapped,      \* fileMap[filename] resolves to the file (file != nil)
    queue,           \* nodes inspect.Preorder has still to visit
    processedExprs,  \* run's processedExprs map: the keys mapped to true
    diags,           \* diagnostics handed to pass.Report, in order
    visited          \* history: every node visited with what it produced

vars == <<file, pc, fileMapped, queue, processedExprs, diags, visited>>

Nil == [k |-> "nil"]

\* With(v, F) is F(v), with v evaluated once however often F uses it
With(v, F(_)) == CHOOSE r \in {F(x) : x \in {v}} : TRUE

(***************************************************************************)
(* Strings (package strings, as used by ParseIgnore)                       *)
(***************************************************************************)
CharAt(s, i) == SubSeq(s, i, i)

IsSpace(c) == c \in {" ", "\t", "\n", "\r", "\f"}

RECURSIVE TrimLeft(_)
TrimLeft(s) ==
    IF Len(s) > 0 /\ IsSpace(CharAt(s, 1))
    THEN TrimLeft(SubSeq(s, 2, Len(s)))
    ELSE s

RECURSIVE TrimRight(_)
TrimRight(s) ==
    IF Len(s) > 0 /\ IsSpace(CharAt(s, Len(s)))
    THEN TrimRight(SubSeq(s, 1, Len(s) - 1))
    ELSE s

\* strings.TrimSpace
TrimSpace(s) == TrimRight(TrimLeft(s))

\* strings.CutPrefix: found
HasPrefix(s, prefix) ==
    Len(s) >= Len(prefix) /\ SubSeq(s, 1, Len(prefix)) = prefix

\* strings.CutPrefix: the text after the prefix
AfterPrefix(s, prefix) == SubSeq(s, Len(prefix) + 1, Len(s))

\* Index of the first sep in s at or after i, or 0
RECURSIVE IndexFrom(_, _, _)
IndexFrom(s, sep, i) ==
    IF i > Len(s) THEN 0
    ELSE IF CharAt(s, i) = sep THEN i
    ELSE IndexFrom(s, sep, i + 1)

\* strings.Split(s, sep) for a one-character sep: always at least one element
RECURSIVE Split(_, _)
Split(s, sep) ==
    With(IndexFrom(s, sep, 1), LAMBDA i :
      IF i = 0 THEN <<s>>
      ELSE <<SubSeq(s, 1, i - 1)>> \o Split(SubSeq(s, i + 1, Len(s)), sep))

\* slices.Contains
Contains(seq, x) == \E i \in DOMAIN seq : seq[i] = x

(***************************************************************************)
(* Package directive: //godernize:ignore directives                        *)
(***************************************************************************)
IgnorePrefix == "//godernize:ignore"

\* A parse that keeps the names as written between the commas; C11 tells
\* it from ParseIgnoreLine
ParseIgnoreLineAsWritten(commentText) ==
    With(TrimSpace(commentText), LAMBDA text :
      IF text = IgnorePrefix THEN [k |-> "Ignore", Names |-> <<>>]
      ELSE IF HasPrefix(text, IgnorePrefix \o "=")
      THEN With(TrimSpace(AfterPrefix(text, IgnorePrefix \o "=")), LAMBDA val :
             IF val = "" THEN [k |-> "Ignore", Names |-> <<>>]
             ELSE [k |-> "Ignore", Names |-> Split(val, ",")])
      ELSE Nil)

\* The directive a single comment line holds, or Nil when the loop of
\* ParseIgnore moves on to the next comment.
ParseIgnoreLine(commentText) ==
    With(TrimSpace(commentText), LAMBDA text :
      IF text = IgnorePrefix THEN [k |-> "Ignore", Names |-> <<>>]
      ELSE IF HasPrefix(text, IgnorePrefix \o "=")
      THEN With(TrimSpace(AfterPrefix(text, IgnorePrefix \o "=")), LAMBDA val :
             IF val = "" THEN [k |-> "Ignore", Names |-> <<>>]
             ELSE With(Split(val, ","), LAMBDA names :
                    IF Len(names) = 0 THEN Nil
                    ELSE [k |-> "Ignore",
                          Names |-> [i \in DOMAIN names |-> TrimSpace(names[i])]]))
      ELSE Nil)

\* ParseIgnore over doc.List from index i: the first comment that parses
RECURSIVE ParseIgnoreFrom(_, _)
ParseIgnoreFrom(list, i) ==
    IF i > Len(list) THEN Nil
    ELSE With(ParseIgnoreLine(list[i]), LAMBDA ig :
           IF ig # Nil THEN ig ELSE ParseIgnoreFrom(list, i + 1))

\* ParseIgnore(doc *ast.CommentGroup) *Ignore
ParseIgnore(doc) ==
    IF doc = Nil THEN Nil ELSE ParseIgnoreFrom(doc.list, 1)

\* (*Ignore).hasName
hasName(ig, name) == Contains(ig.Names, name)

\* A match on the first name only; C12 tells it from ShouldIgnore
ShouldIgnoreFirstName(ig, name) ==
    IF Len(ig.Names) = 0 THEN TRUE ELSE ig.Names[1] = name

\* (*Ignore).ShouldIgnore
ShouldIgnore(ig, name) ==
    IF Len(ig.Names) = 0 THEN TRUE ELSE hasName(ig, name)

\* (*Ignore).HasSpecificRules
HasSpecificRules(ig) == Len(ig.Names) > 0

(***************************************************************************)
(* go/types: the static type TypesInfo.TypeOf gives an expression          *)
(***************************************************************************)
NamedType(pkgPath, name) ==
    [known |-> TRUE, named |-> TRUE, hasPkg |-> TRUE, pkg |-> pkgPath, name |-> name]

CtxType == NamedType("context", "Context")
\* a type named Context of another package
OtherCtxType == NamedType("example.com/myctx", "Context")
\* the predeclared error type: a named type whose object has no package
ErrorType == [known |-> TRUE, named |-> TRUE, hasPkg |-> FALSE, pkg |-> "", name |-> "error"]
\* bool, untyped bool, untyped nil: basic types
BasicType(name) ==
    [known |-> TRUE, named |-> FALSE, hasPkg |-> FALSE, pkg |-> "", name |-> name]
BoolType == BasicType("bool")
NilType == BasicType("untyped nil")
\* TypeOf returns nil
NoType == [known |-> FALSE, named |-> FALSE, hasPkg |-> FALSE, pkg |-> "", name |-> ""]

(***************************************************************************)
(* go/ast expressions.  A shape is an expression without positions; Place  *)
(* lays it out at a position, as the parser does, and records its source   *)
(* text in src.                                                            *)
(***************************************************************************)
IdentS(name, typ) == [k |-> "Ident", name |-> name, typ |-> typ]
CallS(fun, args, typ) == [k |-> "CallExpr", fun |-> fun, args |-> args, typ |-> typ]
ParenS(x) == [k |-> "ParenExpr", X |-> x]
NotS(x) == [k |-> "UnaryExpr", X |-> x]
BinS(op, x, y) == [k |-> "BinaryExpr", op |-> op, X |-> x, Y |-> y]

RECURSIVE Place(_, _)
Place(s, p) ==
    CASE s.k = "Ident" ->
           [k |-> "Ident", pos |-> p, end |-> p + Len(s.name),
            src |-> s.name, typ |-> s.typ, name |-> s.name]
      [] s.k = "CallExpr" ->
           With(IF Len(s.args) = 0 THEN <<>>
                ELSE <<Place(s.args[1], p + Len(s.fun) + 1)>>, LAMBDA args :
             With(IF Len(args) = 0 THEN "" ELSE args[1].src, LAMBDA inner :
               [k |-> "CallExpr", pos |-> p,
                end |-> p + Len(s.fun) + 1 + Len(inner) + 1,
                src |-> s.fun \o "(" \o inner \o ")", typ |-> s.typ,
                fun |-> s.fun, args |-> args]))
      [] s.k = "ParenExpr" ->
           With(Place(s.X, p + 1), LAMBDA x :
             [k |-> "ParenExpr", pos |-> p, end |-> x.end + 1,
              src |-> "(" \o x.src \o ")", typ |-> x.typ, X |-> x])
      [] s.k = "UnaryExpr" ->
           With(Place(s.X, p + 1), LAMBDA x :
             [k |-> "UnaryExpr", pos |-> p, end |-> x.end,
              src |-> "!" \o x.src, typ |-> BoolType, X |-> x])
      [] s.k = "BinaryExpr" ->
           With(Place(s.X, p), LAMBDA x :
             With(Place(s.Y, x.end + Len(s.op) + 2), LAMBDA y :
               [k |-> "BinaryExpr", pos |-> p, end |-> y.end,
                src |-> x.src \o " " \o s.op \o " " \o y.src, typ |-> BoolType,
                op |-> s.op, X |-> x, Y |-> y]))

\* The *ast.BinaryExpr nodes of an expression in the order ast.Inspect
\* (inspector.Preorder) meets them
RECURSIVE BinaryNodes(_)
BinaryNodes(e) ==
    CASE e.k = "BinaryExpr" -> <<e>> \o BinaryNodes(e.X) \o BinaryNodes(e.Y)
      [] e.k \in {"ParenExpr", "UnaryExpr"} -> BinaryNodes(e.X)
      [] e.k = "CallExpr" ->
           IF Len(e.args) = 0 THEN <<>> ELSE BinaryNodes(e.args[1])
      [] OTHER -> <<>>

(***************************************************************************)
(* Package ctxnil: the classifier                                          *)
(***************************************************************************)
trueValue == "true"
falseValue == "false"

\* Threshold of shouldIgnoreFromComment: the largest node.Pos()-cg.End()
\* at which a preceding comment still applies
ProximityWindow == 200

\* A test by the type's name alone, whatever its package; C22 tells it from
\* isContextType
isContextTypeByName(expr) ==
    /\ expr # Nil
    /\ expr.typ.known
    /\ expr.typ.named
    /\ expr.typ.name = "Context"

\* isContextType(pass, expr)
isContextType(expr) ==
    /\ expr # Nil
    /\ expr.typ.known
    /\ expr.typ.named
    /\ expr.typ.hasPkg
    /\ expr.typ.pkg = "context"
    /\ expr.typ.name = "Context"

\* isNilIdent(expr)
isNilIdent(expr) == expr.k = "Ident" /\ expr.name = "nil"

\* A classifier that knows the context value on the left only; C6 tells
\* it from analyzeContextNilComparison
analyzeLeftOnly(expr) ==
    IF expr.op \in {"==", "!="} /\ isContextType(expr.X) /\ isNilIdent(expr.Y)
    THEN [ctxSide |-> expr.X, nilSide |-> expr.Y, isEqual |-> (expr.op = "==")]
    ELSE [ctxSide |-> Nil, nilSide |-> Nil, isEqual |-> FALSE]

\* analyzeContextNilComparison(pass, expr): (ctxSide, nilSide, isEqual)
analyzeContextNilComparison(expr) ==
    LET none == [ctxSide |-> Nil, nilSide |-> Nil, isEqual |-> FALSE]
        leftIsCtx == isContextType(expr.X)
        rightIsCtx == isContextType(expr.Y)
        leftIsNil == isNilIdent(expr.X)
        rightIsNil == isNilIdent(expr.Y)
    IN IF expr.op # "==" /\ expr.op # "!=" THEN none
       ELSE IF leftIsCtx /\ rightIsNil
       THEN [ctxSide |-> expr.X, nilSide |-> expr.Y, isEqual |-> (expr.op = "==")]
       ELSE IF rightIsCtx /\ leftIsNil
       THEN [ctxSide |-> expr.Y, nilSide |-> expr.X, isEqual |-> (expr.op = "==")]
       ELSE none

(***************************************************************************)
(* Package ctxnil: rendering                                               *)
(***************************************************************************)
\* formatExpr(expr)
RECURSIVE formatExpr(_)
formatExpr(expr) ==
    CASE expr.k = "BinaryExpr" ->
           formatExpr(expr.X) \o " " \o expr.op \o " " \o formatExpr(expr.Y)
      [] expr.k = "Ident" -> expr.name
      [] OTHER -> "expr"

\* formatStmt(stmt)
formatStmt(stmt) ==
    CASE stmt.k = "BlockStmt" -> "{\n\t// statements\n}"
      [] stmt.k = "IfStmt" -> "if condition { /* ... */ }"
      [] OTHER -> "/* statement */"

(***************************************************************************)
(* Package ctxnil: the simplifier                                          *)
(***************************************************************************)
\* &ReplacementCondition{...}
Rep(newCondition, isLiteral, message) ==
    [k |-> "ReplacementCondition", NewCondition |-> newCondition,
     IsLiteral |-> isLiteral, Message |-> message]

\* isLiteralExpr(expr, rep)
isLiteralExpr(expr, rep) ==
    (rep # Nil /\ rep.IsLiteral) \/ expr = trueValue \/ expr = falseValue

\* checkAndShortCircuit
checkAndShortCircuit(leftExpr, rightExpr, leftRep, rightRep) ==
    IF leftRep # Nil /\ leftRep.IsLiteral /\ leftExpr = falseValue
    THEN Rep(falseValue, TRUE, "condition is always false (left side is false)")
    ELSE IF rightRep # Nil /\ rightRep.IsLiteral /\ rightExpr = falseValue
    THEN Rep(falseValue, TRUE, "condition is always false (right side is false)")
    ELSE Nil

\* checkAndSimplification
checkAndSimplification(leftExpr, rightExpr, leftRep, rightRep) ==
    IF leftRep # Nil /\ leftRep.IsLiteral /\ leftExpr = trueValue
    THEN Rep(rightExpr, isLiteralExpr(rightExpr, rightRep),
             "simplify to '" \o rightExpr \o "' (left side is always true)")
    ELSE IF rightExpr = trueValue
    THEN Rep(leftExpr, isLiteralExpr(leftExpr, leftRep),
             "simplify to '" \o leftExpr \o "' (right side is always true)")
    ELSE Nil

\* buildAndReplacement
buildAndReplacement(leftExpr, rightExpr, leftRep, rightRep) ==
    IF leftRep # Nil \/ rightRep # Nil
    THEN With(leftExpr \o " && " \o rightExpr, LAMBDA newCondition :
           Rep(newCondition, FALSE, "simplify to '" \o newCondition \o "'"))
    ELSE Nil

\* simplifyAndExpr
simplifyAndExpr(leftExpr, rightExpr, leftRep, rightRep) ==
    With(checkAndShortCircuit(leftExpr, rightExpr, leftRep, rightRep), LAMBDA short :
      IF short # Nil THEN short
      ELSE With(checkAndSimplification(leftExpr, rightExpr, leftRep, rightRep),
                LAMBDA simple :
             IF simple # Nil THEN simple
             ELSE buildAndReplacement(leftExpr, rightExpr, leftRep, rightRep)))

\* checkOrShortCircuit
checkOrShortCircuit(leftExpr, rightExpr, leftRep, rightRep) ==
    IF leftRep # Nil /\ leftRep.IsLiteral /\ leftExpr = trueValue
    THEN Rep(trueValue, TRUE, "condition is always true (left side is true)")
    ELSE IF rightRep # Nil /\ rightRep.IsLiteral /\ rightExpr = trueValue
    THEN Rep(trueValue, TRUE, "condition is always true (right side is true)")
    ELSE Nil

\* checkOrSimplification
checkOrSimplification(leftExpr, rightExpr, leftRep, rightRep) ==
    IF leftRep # Nil /\ leftRep.IsLiteral /\ leftExpr = falseValue
    THEN Rep(rightExpr, isLiteralExpr(rightExpr, rightRep),
             "simplify to '" \o rightExpr \o "' (left side is always false)")
    ELSE IF rightExpr = falseValue
    THEN Rep(leftExpr, isLiteralExpr(leftExpr, leftRep),
             "simplify to '" \o leftExpr \o "' (right side is always false)")
    ELSE Nil

\* buildOrReplacement
buildOrReplacement(leftExpr, rightExpr, leftRep, rightRep) ==
    IF leftRep # Nil \/ rightRep # Nil
    THEN With(leftExpr \o " || " \o rightExpr, LAMBDA newCondition :
           Rep(newCondition, FALSE, "simplify to '" \o newCondition \o "'"))
    ELSE Nil

\* simplifyOrExpr
simplifyOrExpr(leftExpr, rightExpr, leftRep, rightRep) ==
    With(checkOrShortCircuit(leftExpr, rightExpr, leftRep, rightRep), LAMBDA short :
      IF short # Nil THEN short
      ELSE With(checkOrSimplification(leftExpr, rightExpr, leftRep, rightRep),
                LAMBDA simple :
             IF simple # Nil THEN simple
             ELSE buildOrReplacement(leftExpr, rightExpr, leftRep, rightRep)))

\* The direct context nil comparison case of handleBinaryExpr
comparisonReplacement(expr, isEqual) ==
    With(IF ~isEqual THEN trueValue ELSE falseValue, LAMBDA replacement :
      Rep(replacement, TRUE,
          "context nil comparison '" \o formatExpr(expr) \o "' is always "
              \o replacement))

RECURSIVE buildReplacementCondition(_)

\* An algebra that takes one operand's result per pass, the left one first;
\* C13 tells it from simplifyLogical
simplifyLogicalOneSide(expr, leftReplacement, rightReplacement) ==
    IF leftReplacement = Nil /\ rightReplacement = Nil THEN Nil
    ELSE With(IF leftReplacement # Nil THEN leftReplacement.NewCondition
              ELSE formatExpr(expr.X), LAMBDA leftExpr :
           With(IF rightReplacement # Nil /\ leftReplacement = Nil
                THEN rightReplacement.NewCondition
                ELSE formatExpr(expr.Y), LAMBDA rightExpr :
             With(IF leftReplacement = Nil THEN rightReplacement ELSE Nil,
                  LAMBDA rightTaken :
               IF expr.op = "&&"
               THEN simplifyAndExpr(leftExpr, rightExpr, leftReplacement, rightTaken)
               ELSE simplifyOrExpr(leftExpr, rightExpr, leftReplacement, rightTaken))))

\* The connective algebra of handleLogicalExpr on the two operands' results
simplifyLogical(expr, leftReplacement, rightReplacement) ==
    IF leftReplacement = Nil /\ rightReplacement = Nil THEN Nil
    ELSE With(IF leftReplacement # Nil THEN leftReplacement.NewCondition
              ELSE formatExpr(expr.X), LAMBDA leftExpr :
           With(IF rightReplacement # Nil THEN rightReplacement.NewCondition
                ELSE formatExpr(expr.Y), LAMBDA rightExpr :
             IF expr.op = "&&"
             THEN simplifyAndExpr(leftExpr, rightExpr, leftReplacement, rightReplacement)
             ELSE simplifyOrExpr(leftExpr, rightExpr, leftReplacement, rightReplacement)))

\* handleLogicalExpr(pass, expr)
handleLogicalExpr(expr) ==
    With(buildReplacementCondition(expr.X), LAMBDA leftReplacement :
      With(buildReplacementCondition(expr.Y), LAMBDA rightReplacement :
        simplifyLogical(expr, leftReplacement, rightReplacement)))

\* handleBinaryExpr(pass, expr)
handleBinaryExpr(expr) ==
    With(analyzeContextNilComparison(expr), LAMBDA cmp :
      IF cmp.ctxSide # Nil /\ cmp.nilSide # Nil
      THEN comparisonReplacement(expr, cmp.isEqual)
      ELSE IF expr.op = "&&" \/ expr.op = "||"
      THEN handleLogicalExpr(expr)
      ELSE Nil)

\* A simplifier that looks under a negation and negates the inner text;
\* C26 tells it from buildReplacementCondition
buildReplacementConditionNegated(expr) ==
    CASE expr.k = "BinaryExpr" -> handleBinaryExpr(expr)
      [] expr.k = "ParenExpr" ->
           With(buildReplacementCondition(expr.X), LAMBDA inner :
             IF inner = Nil THEN Nil
             ELSE Rep("(" \o inner.NewCondition \o ")", inner.IsLiteral, inner.Message))
      [] expr.k = "UnaryExpr" ->
           With(buildReplacementCondition(expr.X), LAMBDA inner :
             IF inner = Nil THEN Nil
             ELSE Rep("!" \o inner.NewCondition, FALSE, inner.Message))
      [] OTHER -> Nil

\* A simplifier that hands on the inner result of a parenthesized
\* expression as it is; C23 tells it from buildReplacementCondition
buildReplacementConditionInner(expr) ==
    CASE expr.k = "BinaryExpr" -> handleBinaryExpr(expr)
      [] expr.k = "ParenExpr" -> buildReplacementCondition(expr.X)
      [] OTHER -> Nil

\* buildReplacementCondition(pass, expr)
buildReplacementCondition(expr) ==
    CASE expr.k = "BinaryExpr" -> handleBinaryExpr(expr)
      [] expr.k = "ParenExpr" ->
           With(buildReplacementCondition(expr.X), LAMBDA inner :
             IF inner = Nil THEN Nil
             ELSE Rep("(" \o inner.NewCondition \o ")", inner.IsLiteral, inner.Message))
      [] OTHER -> Nil

(***************************************************************************)
(* Package ctxnil: suppression                                             *)
(***************************************************************************)
\* shouldIgnoreInFunction(file, node, analyzerName)
shouldIgnoreInFunction(f, node, analyzerName) ==
    /\ f # Nil
    /\ \E i \in DOMAIN f.decls :
         LET decl == f.decls[i] IN
         /\ decl.k = "FuncDecl"
         /\ node.pos >= decl.pos
         /\ node.end <= decl.end
         /\ \E ignore \in {ParseIgnore(decl.doc)} :
              ignore # Nil /\ ShouldIgnore(ignore, analyzerName)

\* A window one character wider; C10 tells it from commentApplies
commentAppliesWider(cg, node) ==
    cg.end <= node.pos /\ node.pos - cg.end <= ProximityWindow + 1

\* The test of shouldIgnoreFromComment on one comment group: it appears
\* before the node and is reasonably close
commentApplies(cg, node) ==
    cg.end <= node.pos /\ node.pos - cg.end <= ProximityWindow

\* shouldIgnoreFromComment(file, node, analyzerName)
shouldIgnoreFromComment(f, node, analyzerName) ==
    /\ f # Nil
    /\ \E i \in DOMAIN f.comments :
         LET cg == f.comments[i] IN
         /\ commentApplies(cg, node)
         /\ \E ignore \in {ParseIgnore(cg)} :
              ignore # Nil /\ ShouldIgnore(ignore, analyzerName)

\* shouldIgnore(file, node, analyzerName)
shouldIgnore(f, node, analyzerName) ==
    /\ f # Nil
    /\ \/ shouldIgnoreInFunction(f, node, analyzerName)
       \/ shouldIgnoreFromComment(f, node, analyzerName)

(***************************************************************************)
(* Package ctxnil: diagnostics                                             *)
(***************************************************************************)
TextEdit(pos, end, newText) == [Pos |-> pos, End |-> end, NewText |-> newText]

\* analysis.Diagnostic with one SuggestedFix
Diagnostic(pos, message, fixMessage, edits) ==
    [k |-> "Diagnostic", Pos |-> pos, Message |-> message,
     FixMessage |-> fixMessage, TextEdits |-> edits]

\* createTrueConditionFix(stmt)
createTrueConditionFix(stmt) ==
    IF stmt.else # Nil
    THEN Diagnostic(stmt.pos, "condition is always true, else clause is unreachable",
                    "Replace with then clause",
                    <<TextEdit(stmt.pos, stmt.end, formatStmt(stmt.body))>>)
    ELSE Diagnostic(stmt.pos, "condition is always true",
                    "Replace with then clause",
                    <<TextEdit(stmt.pos, stmt.end, formatStmt(stmt.body))>>)

\* createFalseConditionFix(stmt)
createFalseConditionFix(stmt) ==
    IF stmt.else # Nil
    THEN Diagnostic(stmt.pos, "condition is always false, then clause is unreachable",
                    "Replace with else clause",
                    <<TextEdit(stmt.pos, stmt.end, formatStmt(stmt.else))>>)
    ELSE Diagnostic(stmt.pos, "condition is always false, remove entire if statement",
                    "Remove if statement",
                    <<TextEdit(stmt.pos, stmt.end, "")>>)

\* A fix whose non-literal edit covers the whole statement; C4 tells it
\* from createConditionFix
createWholeStatementFix(stmt, replacement) ==
    IF replacement.IsLiteral
    THEN IF replacement.NewCondition = trueValue
         THEN createTrueConditionFix(stmt)
         ELSE createFalseConditionFix(stmt)
    ELSE Diagnostic(stmt.cond.pos, replacement.Message,
                    "Replace condition with '" \o replacement.NewCondition \o "'",
                    <<TextEdit(stmt.pos, stmt.end, replacement.NewCondition)>>)

\* createConditionFix(stmt, replacement)
createConditionFix(stmt, replacement) ==
    IF replacement.IsLiteral
    THEN IF replacement.NewCondition = trueValue
         THEN createTrueConditionFix(stmt)
         ELSE createFalseConditionFix(stmt)
    ELSE Diagnostic(stmt.cond.pos, replacement.Message,
                    "Replace condition with '" \o replacement.NewCondition \o "'",
                    <<TextEdit(stmt.cond.pos, stmt.cond.end, replacement.NewCondition)>>)

\* diagnoseBinaryExpr(pass, file, expr)
diagnoseBinaryExpr(f, expr) ==
    With(analyzeContextNilComparison(expr), LAMBDA cmp :
      IF cmp.ctxSide = Nil \/ cmp.nilSide = Nil THEN Nil
      ELSE IF shouldIgnore(f, expr, "ctxnil") THEN Nil
      ELSE With(IF ~cmp.isEqual THEN trueValue ELSE falseValue, LAMBDA replacement :
             Diagnostic(expr.pos,
                 "context should never be nil, replace '" \o formatExpr(expr)
                     \o "' with '" \o replacement \o "'",
                 "Replace with " \o replacement,
                 <<TextEdit(expr.pos, expr.end, replacement)>>)))

\* diagnoseIfStmt(pass, file, stmt)
diagnoseIfStmt(f, stmt) ==
    IF stmt.cond = Nil THEN Nil
    ELSE IF shouldIgnore(f, stmt, "ctxnil") THEN Nil
    ELSE With(buildReplacementCondition(stmt.cond), LAMBDA replacement :
           IF replacement = Nil THEN Nil
           ELSE createConditionFix(stmt, replacement))

\* markProcessedExpr(expr, processed): the keys it sets to true
RECURSIVE markProcessedExpr(_)
markProcessedExpr(expr) ==
    CASE expr.k = "BinaryExpr" ->
           {expr} \cup markProcessedExpr(expr.X) \cup markProcessedExpr(expr.Y)
      [] expr.k \in {"UnaryExpr", "ParenExpr"} ->
           {expr} \cup markProcessedExpr(expr.X)
      [] OTHER -> {expr}

(***************************************************************************)
(* go/parser: the layout of a file.  A file description is a sequence of   *)
(* functions, each with an optional doc comment and one statement, which   *)
(* may carry a comment before it, inside it or after it.  Layout gives     *)
(* every node and comment group its token.Pos.                             *)
(***************************************************************************)
\* The length of the lines of a comment group, with the line breaks
\* between them
RECURSIVE LinesLen(_, _)
LinesLen(list, i) ==
    IF i > Len(list) THEN 0
    ELSE Len(list[i]) + (IF i < Len(list) THEN 1 ELSE 0) + LinesLen(list, i + 1)

\* A comment group of one-line comments starting at p
CommentGroup(list, p) ==
    [k |-> "CommentGroup", pos |-> p, list |-> list, end |-> p + LinesLen(list, 1)]

BlockStmt(text, p) ==
    [k |-> "BlockStmt", pos |-> p, end |-> p + Len(text), src |-> text]

\* The else branch at position p: none, a block, or a chained if statement
ElseStmt(els, p) ==
    CASE els = "block" -> BlockStmt("{ g() }", p)
      [] els = "if" ->
           With(Place(IdentS("ready", BoolType), p + Len("if ")), LAMBDA c2 :
             With(BlockStmt("{ h() }", c2.end + 1), LAMBDA b2 :
               [k |-> "IfStmt", pos |-> p, end |-> b2.end,
                init |-> Nil, cond |-> c2, body |-> b2, else |-> Nil,
                src |-> "if " \o c2.src \o " " \o b2.src]))
      [] OTHER -> Nil

\* The init statement of an if statement at position p, if it has one
InitStmt(hasInit, p) ==
    IF hasInit
    THEN [k |-> "AssignStmt", pos |-> p, end |-> p + Len("v := g()"), src |-> "v := g()"]
    ELSE Nil

\* if [<init>; ]<cond> <body> [else <else>], whose header (the init
\* statement and the guard) starts at headPos
IfStmt(p, headPos, hasInit, condShape, els) ==
    With(InitStmt(hasInit, headPos), LAMBDA init :
      With(Place(condShape, IF init = Nil THEN headPos ELSE init.end + Len("; ")),
           LAMBDA cond :
        With(BlockStmt("{ f() }", cond.end + 1), LAMBDA body :
          With(ElseStmt(els, body.end + Len(" else ")), LAMBDA alt :
            [k |-> "IfStmt", pos |-> p, init |-> init, cond |-> cond,
             body |-> body, else |-> alt,
             end |-> IF alt = Nil THEN body.end ELSE alt.end]))))

\* result = <rhs>, the right-hand side starting at rhsPos
AssignStmt(p, rhsPos, rhsShape) ==
    With(Place(rhsShape, rhsPos), LAMBDA rhs :
      [k |-> "AssignStmt", pos |-> p, end |-> rhs.end, rhs |-> rhs])

\* The nodes of a statement that match run's nodeFilter, in preorder
StmtNodes(stmt) ==
    CASE stmt.k = "IfStmt" ->
           <<stmt>> \o BinaryNodes(stmt.cond)
             \o (IF stmt.else # Nil /\ stmt.else.k = "IfStmt"
                 THEN <<stmt.else>> \o BinaryNodes(stmt.else.cond)
                 ELSE <<>>)
      [] stmt.k = "AssignStmt" -> BinaryNodes(stmt.rhs)
      [] OTHER -> <<>>

NoLead == [where |-> "none", list |-> <<>>, gap |-> 0]

OptSeq(c) == IF c = Nil THEN <<>> ELSE <<c>>

\* The statement of a function at stmtPos, with the comment inside or
\* after it, if any: the comment groups in source order and the nodes
LayoutStmt(sd, stmtPos) ==
    With(IF sd.kind = "if" THEN "if " ELSE "result = ", LAMBDA keyword :
      With(IF sd.lead.where = "inner"
           THEN CommentGroup(sd.lead.list, stmtPos + Len(keyword))
           ELSE Nil, LAMBDA inner :
        With(IF inner = Nil THEN stmtPos + Len(keyword)
             ELSE inner.end + Len("\n\t\t"), LAMBDA exprPos :
          With(IF sd.kind = "if"
               THEN IfStmt(stmtPos, exprPos, sd.init, sd.expr, sd.els)
               ELSE AssignStmt(stmtPos, exprPos, sd.expr), LAMBDA stmt :
            With(IF sd.lead.where = "after"
                 THEN CommentGroup(sd.lead.list, stmt.end + 1)
                 ELSE Nil, LAMBDA after :
              [comments |-> OptSeq(inner) \o OptSeq(after),
               nodes |-> StmtNodes(stmt),
               end |-> IF after = Nil THEN stmt.end ELSE after.end])))))

\* One function laid out from position p: its declaration, its comment
\* groups in source order and its nodes
LayoutFunc(fd, p) ==
    With(IF Len(fd.doc) = 0 THEN Nil ELSE CommentGroup(fd.doc, p), LAMBDA doc :
      With(IF doc = Nil THEN p ELSE doc.end + 1, LAMBDA funcPos :
        With(funcPos + Len("func " \o fd.name \o "(ctx context.Context) {")
               + Len("\n\t"), LAMBDA bodyPos :
          With(IF fd.stmt.lead.where = "before"
               THEN CommentGroup(fd.stmt.lead.list, bodyPos)
               ELSE Nil, LAMBDA before :
            With(LayoutStmt(fd.stmt, IF before = Nil THEN bodyPos
                                     ELSE before.end + fd.stmt.lead.gap), LAMBDA st :
              [decl |-> [k |-> "FuncDecl", name |-> fd.name, doc |-> doc,
                         pos |-> funcPos, end |-> st.end + Len("\n}")],
               comments |-> OptSeq(doc) \o OptSeq(before) \o st.comments,
               nodes |-> st.nodes])))))

FileHeader == "package a\n\nimport \"context\"\n\n"

\* The *ast.File of a file description: Decls, Comments, and the nodes
\* inspect.Preorder visits
RECURSIVE LayoutFrom(_, _, _)
LayoutFrom(fds, i, p) ==
    IF i > Len(fds) THEN [decls |-> <<>>, comments |-> <<>>, nodes |-> <<>>]
    ELSE With(LayoutFunc(fds[i], p + fds[i].pad), LAMBDA fn :
           With(LayoutFrom(fds, i + 1, fn.decl.end + Len("\n\n")), LAMBDA rest :
             [decls |-> <<fn.decl>> \o rest.decls,
              comments |-> fn.comments \o rest.comments,
              nodes |-> fn.nodes \o rest.nodes]))

\* The import declaration of the file header
ImportDecl ==
    [k |-> "GenDecl", doc |-> Nil,
     pos |-> 1 + Len("package a\n\n"), end |-> Len(FileHeader) - 1]

Layout(fds) ==
    With(LayoutFrom(fds, 1, 1 + Len(FileHeader)), LAMBDA body :
      [k |-> "File", decls |-> <<ImportDecl>> \o body.decls,
       comments |-> body.comments, nodes |-> body.nodes])

(***************************************************************************)
(* The files analysed                                                      *)
(***************************************************************************)
\* How many times a connective is nested inside another one's operand,
\* beyond a connective of two plain operands
MaxNest == 1

ctx == IdentS("ctx", CtxType)
nilId == IdentS("nil", NilType)
ready == IdentS("ready", BoolType)
trueId == IdentS("true", BoolType)
falseId == IdentS("false", BoolType)
errId == IdentS("err", ErrorType)
otherCtx == IdentS("mc", OtherCtxType)
reqCtx == CallS("req.Context", <<>>, CtxType)

CtxEqNil == BinS("==", ctx, nilId)
CtxNeNil == BinS("!=", ctx, nilId)

\* Comparisons: a context value with nil in both orders, a context value
\* that is no identifier, and comparisons the classifier does not match
Comparisons ==
    {BinS(op, ctx, nilId) : op \in {"==", "!="}}
      \cup {BinS(op, nilId, ctx) : op \in {"==", "!="}}
      \cup {BinS("!=", reqCtx, nilId), BinS("==", errId, nilId),
            BinS("==", otherCtx, nilId)}

Operands ==
    Comparisons
      \cup {ready, trueId, falseId, CallS("ok", <<>>, BoolType),
            CallS("check", <<CtxEqNil>>, BoolType)}
      \cup {ParenS(CtxNeNil), ParenS(CtxEqNil), ParenS(ready)}
      \cup {NotS(ParenS(CtxEqNil)), NotS(ready)}

Connectives == {"&&", "||"}

SmallOperands == {CtxNeNil, CtxEqNil, ready, trueId}
TinyOperands == {CtxNeNil, ready}

\* Go's precedence: x || y && z parses as x || (y && z), so a bare ||
\* is never the left operand of &&
BareLeftOk(op, g) == ~(op = "&&" /\ g.op = "||")

RECURSIVE Nested(_)
Nested(n) ==
    IF n = 0 THEN {BinS(op, a, b) : op \in Connectives, a \in SmallOperands, b \in SmallOperands}
    ELSE LET inner == Nested(n - 1)
             bare == {g \in inner : g.k = "BinaryExpr"}
         IN {ParenS(g) : g \in bare}
              \cup {x \in {BinS(op, g, a) : op \in Connectives, g \in bare, a \in TinyOperands} :
                      BareLeftOk(x.op, x.X)}
              \cup {BinS(op, a, ParenS(g)) : op \in Connectives, a \in TinyOperands, g \in bare}
              \cup {BinS(op, ParenS(g), a) : op \in Connectives, g \in bare, a \in TinyOperands}

Guards ==
    Operands
      \cup {BinS(op, a, b) : op \in Connectives, a \in Operands, b \in Operands}
      \cup UNION {Nested(n) : n \in 1..MaxNest}

ElseKinds == {"none", "block", "if"}

IfD(expr, els, lead) ==
    [kind |-> "if", expr |-> expr, els |-> els, lead |-> lead, init |-> FALSE]
IfInitD(expr, els) ==
    [kind |-> "if", expr |-> expr, els |-> els, lead |-> NoLead, init |-> TRUE]
AssignD(expr, lead) ==
    [kind |-> "assign", expr |-> expr, els |-> "none", lead |-> lead, init |-> FALSE]
FuncD(name, doc, stmt, pad) == [name |-> name, doc |-> doc, stmt |-> stmt, pad |-> pad]

\* Files of one function without comments: every guard, every else kind,
\* and bare comparisons in an assignment
FoldFiles ==
    {<<FuncD("f1", <<>>, IfD(g, els, NoLead), 0)>> : g \in Guards, els \in ElseKinds}
      \cup {<<FuncD("f1", <<>>, AssignD(e, NoLead), 0)>> : e \in Operands}

\* Files of one function whose if statement has an init statement
InitFiles ==
    {<<FuncD("f1", <<>>, IfInitD(g, els), 0)>> :
        g \in {CtxEqNil, BinS("&&", CtxNeNil, ready), BinS("||", ready, CtxEqNil),
               BinS("||", ParenS(CtxNeNil), ready)},
        els \in ElseKinds}

DirectiveTexts ==
    {"//godernize:ignore=ctxnil", "//godernize:ignore",
     "//godernize:ignore=oserrors", "// check the context"}

Docs ==
    {<<>>} \cup {<<t>> : t \in DirectiveTexts}
      \cup {<<"// Test ignore functionality", "//", "//godernize:ignore=ctxnil">>,
            <<"//godernize:ignore=oserrors", "//godernize:ignore=ctxnil">>}

\* Distances from the end of a comment to the start of the statement after
\* it: adjacent lines, and around the proximity window
Gaps == {2, ProximityWindow - 2, ProximityWindow, ProximityWindow + 1}

Leads ==
    {NoLead}
      \cup {[where |-> "before", list |-> <<t>>, gap |-> g] : t \in DirectiveTexts, g \in Gaps}
      \cup {[where |-> w, list |-> <<t>>, gap |-> 0] :
              w \in {"inner", "after"}, t \in DirectiveTexts}

ScopeStmts ==
    {IfD(CtxEqNil, "none", l) : l \in Leads}
      \cup {IfD(BinS("&&", ready, CtxNeNil), "block", l) : l \in Leads}
      \cup {AssignD(CtxEqNil, l) : l \in Leads}

\* Other declarations between the two functions: none, or more than the window
Pads == {0, ProximityWindow + 50}

\* Files of two functions: the first with a doc comment and a comment near
\* its statement, the second without any, at either distance
ScopeFiles ==
    {<<FuncD("f1", doc, st, 0), FuncD("f2", <<>>, st2, pad)>> :
        doc \in Docs, st \in ScopeStmts,
        st2 \in {IfD(CtxEqNil, "none", NoLead), AssignD(CtxNeNil, NoLead)},
        pad \in Pads}

\* Comparisons the classifier has to leave alone: two context values, a
\* value whose type is unknown, a context of another package on the right,
\* and a nil in parentheses
parentCtx == IdentS("parent", CtxType)
unknownId == IdentS("v", NoType)

OtherComparisons ==
    {BinS(op, a, b) :
       op \in {"==", "!="},
       a \in {ctx}, b \in {parentCtx, ParenS(nilId)}}
      \cup {BinS(op, a, b) : op \in {"==", "!="}, a \in {unknownId, errId}, b \in {nilId}}
      \cup {BinS(op, nilId, b) : op \in {"==", "!="}, b \in {unknownId, otherCtx}}

\* Files of one function with such a comparison as a guard or in an
\* assignment
ClassifierFiles ==
    {<<FuncD("f1", <<>>, IfD(e, "none", NoLead), 0)>> : e \in OtherComparisons}
      \cup {<<FuncD("f1", <<>>, AssignD(e, NoLead), 0)>> : e \in OtherComparisons}

Files ==
    {Layout(fds) : fds \in FoldFiles \cup InitFiles \cup ScopeFiles \cup ClassifierFiles}

(***************************************************************************)
(* run(pass): the traversal                                                *)
(***************************************************************************)
Init ==
    /\ file \in Files
    /\ pc = "start"
    /\ fileMapped = FALSE
    /\ queue = <<>>
    /\ processedExprs = {}
    /\ diags = <<>>
    /\ visited = <<>>

\* pass == nil, or the inspector result is missing: skip the analysis
Skip ==
    /\ pc = "start"
    /\ pc' = "done"
    /\ UNCHANGED <<file, fileMapped, queue, processedExprs, diags, visited>>

\* buildFileMap and the start of inspect.Preorder; the file map holds the
\* file under the name the nodes' positions resolve to, or it does not
Start ==
    /\ pc = "start"
    /\ \E mapped \in BOOLEAN : fileMapped' = mapped
    /\ queue' = file.nodes
    /\ pc' = "walk"
    /\ UNCHANGED <<file, processedExprs, diags, visited>>

\* file := fileMap[filename]
FileOf == IF fileMapped THEN file ELSE Nil

\* A callback that marks the guard of every if statement it visits,
\* reported or not; C29 tells it from VisitIfStmt
VisitIfStmtMarkAlways ==
    /\ pc = "walk"
    /\ queue # <<>>
    /\ Head(queue).k = "IfStmt"
    /\ \E node \in {Head(queue)} :
         \E diagnostic \in {diagnoseIfStmt(FileOf, node)} :
           /\ diags' = IF diagnostic # Nil THEN Append(diags, diagnostic) ELSE diags
           /\ processedExprs' =
                IF node.cond # Nil
                THEN processedExprs \cup markProcessedExpr(node.cond)
                ELSE processedExprs
           /\ visited' = Append(visited,
                [node |-> node, diag |-> diagnostic, skipped |-> FALSE])
    /\ queue' = Tail(queue)
    /\ UNCHANGED <<file, pc, fileMapped>>

\* The callback of inspect.Preorder: case *ast.IfStmt
VisitIfStmt ==
    /\ pc = "walk"
    /\ queue # <<>>
    /\ Head(queue).k = "IfStmt"
    /\ \E node \in {Head(queue)} :
         \E diagnostic \in {diagnoseIfStmt(FileOf, node)} :
           /\ diags' = IF diagnostic # Nil THEN Append(diags, diagnostic) ELSE diags
           /\ processedExprs' =
                IF diagnostic # Nil /\ node.cond # Nil
                THEN processedExprs \cup markProcessedExpr(node.cond)
                ELSE processedExprs
           /\ visited' = Append(visited,
                [node |-> node, diag |-> diagnostic, skipped |-> FALSE])
    /\ queue' = Tail(queue)
    /\ UNCHANGED <<file, pc, fileMapped>>

\* The callback of inspect.Preorder: case *ast.BinaryExpr
VisitBinaryExpr ==
    /\ pc = "walk"
    /\ queue # <<>>
    /\ Head(queue).k = "BinaryExpr"
    /\ \E node \in {Head(queue)} :
         \E diagnostic \in {IF node \notin processedExprs
                             THEN diagnoseBinaryExpr(FileOf, node)
                             ELSE Nil} :
           /\ diags' = IF diagnostic # Nil THEN Append(diags, diagnostic) ELSE diags
           /\ visited' = Append(visited,
                [node |-> node, diag |-> diagnostic,
                 skipped |-> (node \in processedExprs)])
    /\ queue' = Tail(queue)
    /\ UNCHANGED <<file, pc, fileMapped, processedExprs>>

\* inspect.Preorder is over: return nil, nil
Return ==
    /\ pc = "walk"
    /\ queue = <<>>
    /\ pc' = "done"
    /\ UNCHANGED <<file, fileMapped, queue, processedExprs, diags, visited>>

Next == Skip \/ Start \/ VisitIfStmt \/ VisitBinaryExpr \/ Return

Spec == Init /\ [][Next]_vars

(***************************************************************************)
(* Package oserrors: the analyzer of deprecated os error functions.  A     *)
(* file is a record with its import specs, declarations, comment groups    *)
(* and the *ast.CallExpr nodes inspect.Preorder visits.                    *)
(***************************************************************************)
\* Analyzer: the deprecated functions of package os and the errors of
\* package io/fs that replace them
osFuncsToFsErr ==
    [IsNotExist |-> "ErrNotExist", IsExist |-> "ErrExist",
     IsPermission |-> "ErrPermission"]

\* r.osFuncsToFsErr[name]: the zero value "" for a name that is no key
FsErrOf(name) ==
    IF name \in DOMAIN osFuncsToFsErr THEN osFuncsToFsErr[name] ELSE ""

\* strconv.Quote, for a path without characters to escape
Quote(path) == "\"" \o path \o "\""

\* Index of the last sep in s at or before i, or 0
RECURSIVE LastIndexFrom(_, _, _)
LastIndexFrom(s, sep, i) ==
    IF i < 1 THEN 0
    ELSE IF CharAt(s, i) = sep THEN i
    ELSE LastIndexFrom(s, sep, i - 1)

\* filepath.Base, for a non-empty path that does not end in a slash
Base(path) ==
    With(LastIndexFrom(path, "/", Len(path)), LAMBDA i :
      SubSeq(path, i + 1, Len(path)))

\* aliasNameOf(imp)
aliasNameOf(imp) == IF imp.name = Nil THEN "" ELSE imp.name.name

\* findAliasName(file, path): the first import spec of the path decides
RECURSIVE findAliasFrom(_, _, _)
findAliasFrom(imports, path, i) ==
    IF i > Len(imports) THEN ""
    ELSE IF imports[i].value = Quote(path)
    THEN With(aliasNameOf(imports[i]), LAMBDA aliasName :
           IF aliasName = "" THEN Base(path) ELSE aliasName)
    ELSE findAliasFrom(imports, path, i + 1)

findAliasName(f, path) == findAliasFrom(f.imports, path, 1)

\* importedIdentifier(file, ident, path)
importedIdentifier(f, ident, path) ==
    IF f = Nil \/ ident = Nil \/ ident.pos < 1 THEN ""
    ELSE IF f.pos < 1 \/ f.end < 1 \/ ident.pos < f.pos \/ ident.pos > f.end THEN ""
    ELSE findAliasName(f, path)

\* isPkg(file, expr, path)
isPkg(f, expr, path) ==
    /\ expr # Nil
    /\ expr.k = "Ident"
    /\ expr.name = importedIdentifier(f, expr, path)

\* runner.findMapping(file, call): (fName, fsErr)
findMapping(f, call) ==
    IF call.fun.k # "SelectorExpr" \/ ~isPkg(f, call.fun.X, "os")
    THEN [fName |-> "", fsErr |-> ""]
    ELSE [fName |-> call.fun.Sel, fsErr |-> FsErrOf(call.fun.Sel)]

\* A test that any directive passes; C15 tells it from osDirectiveApplies
osAnyDirectiveApplies(ignore, funcName) == ignore # Nil

\* ignore != nil && (ignore.ShouldIgnore("oserrors") || ignore.ShouldIgnore(funcName))
osDirectiveApplies(ignore, funcName) ==
    ignore # Nil /\ (ShouldIgnore(ignore, "oserrors") \/ ShouldIgnore(ignore, funcName))

\* oserrors.shouldIgnoreInFunction(file, call, funcName)
osShouldIgnoreInFunction(f, call, funcName) ==
    \E i \in DOMAIN f.decls :
      \E decl \in {f.decls[i]} :
        /\ decl.k = "FuncDecl"
        /\ call.pos >= decl.pos
        /\ call.end <= decl.end
        /\ osDirectiveApplies(ParseIgnore(decl.doc), funcName)

\* The test of oserrors.shouldIgnoreFromComment on one comment group
osCommentApplies(cg, call) ==
    cg.end <= call.pos /\ call.pos - cg.end <= ProximityWindow

\* oserrors.shouldIgnoreFromComment(file, call, funcName)
osShouldIgnoreFromComment(f, call, funcName) ==
    \E i \in DOMAIN f.comments :
      \E cg \in {f.comments[i]} :
        /\ osCommentApplies(cg, call)
        /\ osDirectiveApplies(ParseIgnore(cg), funcName)

\* oserrors.shouldIgnore(file, call, funcName)
osShouldIgnore(f, call, funcName) ==
    osShouldIgnoreInFunction(f, call, funcName)
      \/ osShouldIgnoreFromComment(f, call, funcName)

\* format.Node on an expression: the printer writes the tree, not the
\* source text: names, a dot before a selector, and arguments separated by
\* a comma and a space
RECURSIVE printExpr(_)
RECURSIVE printArgs(_, _)
printArgs(args, i) ==
    IF i > Len(args) THEN ""
    ELSE printExpr(args[i]) \o (IF i < Len(args) THEN ", " ELSE "")
           \o printArgs(args, i + 1)

printExpr(node) ==
    CASE node.k = "Ident" -> node.name
      [] node.k = "SelectorExpr" -> printExpr(node.X) \o "." \o node.Sel
      [] node.k = "CallExpr" ->
           printExpr(node.fun) \o "(" \o printArgs(node.args, 1) \o ")"

\* formatASTNode(node)
formatASTNode(node) == IF node = Nil THEN "" ELSE printExpr(node)

\* A replacement text with the package names errors and fs whatever the
\* file's imports; C14 tells it from buildReplacementText
buildReplacementTextPlain(f, argText, fsErr) ==
    "errors.Is(" \o argText \o ", fs." \o fsErr \o ")"

\* buildReplacementText(file, argText, fsErr)
buildReplacementText(f, argText, fsErr) ==
    With(findAliasName(f, "errors"), LAMBDA errorsAlias :
      With(findAliasName(f, "io/fs"), LAMBDA fsAlias :
        (IF errorsAlias = "" THEN "errors" ELSE errorsAlias)
          \o ".Is(" \o argText \o ", "
          \o (IF fsAlias = "" THEN "fs" ELSE fsAlias) \o "." \o fsErr \o ")"))

\* A diagnostic for any number of arguments, from the first one if there is
\* one; C16 tells it from createDiagnostic
createDiagnosticAnyArgs(f, call, fName, fsErr) ==
    With(IF Len(call.args) = 0 THEN "err" ELSE formatASTNode(call.args[1]),
         LAMBDA argText :
      With(buildReplacementText(f, argText, fsErr), LAMBDA replacementText :
        Diagnostic(call.pos,
            "os." \o fName \o " is deprecated, use " \o replacementText \o " instead",
            "Replace with " \o replacementText,
            <<TextEdit(call.pos, call.end, replacementText)>>)))

\* createDiagnostic(file, call, fName, fsErr)
createDiagnostic(f, call, fName, fsErr) ==
    IF call = Nil \/ call.pos < 1 \/ call.end < 1 THEN Nil
    ELSE IF Len(call.args) # 1 THEN Nil
    ELSE With(formatASTNode(call.args[1]), LAMBDA formatted :
      With(IF formatted = "" THEN "err" ELSE formatted, LAMBDA argText :
        With(buildReplacementText(f, argText, fsErr), LAMBDA replacementText :
          IF replacementText = "" THEN Nil
          ELSE Diagnostic(call.pos,
                   "os." \o fName \o " is deprecated, use " \o replacementText
                       \o " instead",
                   "Replace with " \o replacementText,
                   <<TextEdit(call.pos, call.end, replacementText)>>))))

\* runner.diagnoseCallExpr(file, call)
diagnoseCallExpr(f, call) ==
    IF call = Nil \/ call.fun = Nil THEN Nil
    ELSE With(findMapping(f, call), LAMBDA mapping :
      IF mapping.fsErr = "" THEN Nil
      ELSE IF osShouldIgnore(f, call, mapping.fName) THEN Nil
      ELSE createDiagnostic(f, call, mapping.fName, mapping.fsErr))

(***************************************************************************)
(* go/parser: the layout of a file for oserrors.  A file description has   *)
(* import specs and functions; a function has an optional doc comment and  *)
(* statements ok = <call>, each with an optional comment before it.        *)
(***************************************************************************)
\* pkg.sel(args), or sel(args) when pkg is empty
SelCallS(pkg, sel, args) == [k |-> "SelCall", pkg |-> pkg, sel |-> sel, args |-> args]

\* The source text of placed arguments, separated by ", "
RECURSIVE JoinSrc(_, _)
JoinSrc(args, i) ==
    IF i > Len(args) THEN ""
    ELSE args[i].src \o (IF i < Len(args) THEN ", " ELSE "") \o JoinSrc(args, i + 1)

RECURSIVE PlaceCall(_, _)
RECURSIVE PlaceArgs(_, _, _)
PlaceArgs(args, i, p) ==
    IF i > Len(args) THEN <<>>
    ELSE With(IF args[i].k = "SelCall" THEN PlaceCall(args[i], p)
              ELSE Place(args[i], p), LAMBDA a :
           <<a>> \o PlaceArgs(args, i + 1, a.end + Len(", ")))

\* The called function of a call at position p
CallFun(s, p) ==
    IF s.pkg = "" THEN Place(IdentS(s.sel, NoType), p)
    ELSE [k |-> "SelectorExpr", pos |-> p, end |-> p + Len(s.pkg) + 1 + Len(s.sel),
          src |-> s.pkg \o "." \o s.sel,
          X |-> Place(IdentS(s.pkg, NoType), p), Sel |-> s.sel]

\* The *ast.CallExpr of a call at position p
PlaceCall(s, p) ==
    With(CallFun(s, p), LAMBDA fun :
      With(PlaceArgs(s.args, 1, fun.end + 1), LAMBDA args :
        With(JoinSrc(args, 1), LAMBDA inner :
          [k |-> "CallExpr", pos |-> p, end |-> fun.end + 1 + Len(inner) + 1,
           src |-> fun.src \o "(" \o inner \o ")", typ |-> BoolType,
           fun |-> fun, args |-> args])))

\* The *ast.CallExpr nodes of an expression in the order inspect.Preorder
\* meets them
RECURSIVE CallNodes(_)
RECURSIVE CallNodesOf(_, _)
CallNodesOf(args, i) ==
    IF i > Len(args) THEN <<>>
    ELSE CallNodes(args[i]) \o CallNodesOf(args, i + 1)

CallNodes(e) ==
    IF e.k = "CallExpr" THEN <<e>> \o CallNodesOf(e.args, 1) ELSE <<>>

\* The statements of a function from index i, the first at line start p:
\* the comment groups and call nodes in source order, and the end
RECURSIVE LayoutCalls(_, _, _)
LayoutCalls(stmts, i, p) ==
    IF i > Len(stmts) THEN [comments |-> <<>>, nodes |-> <<>>, end |-> p - Len("\n\t")]
    ELSE With(IF stmts[i].lead.where = "before"
              THEN CommentGroup(stmts[i].lead.list, p)
              ELSE Nil, LAMBDA before :
      With(IF before = Nil THEN p ELSE before.end + stmts[i].lead.gap, LAMBDA stmtPos :
        With(PlaceCall(stmts[i].call, stmtPos + Len("ok = ")), LAMBDA call :
          With(LayoutCalls(stmts, i + 1, call.end + Len("\n\t")), LAMBDA rest :
            [comments |-> OptSeq(before) \o rest.comments,
             nodes |-> CallNodes(call) \o rest.nodes,
             end |-> IF i = Len(stmts) THEN call.end ELSE rest.end]))))

\* One function laid out from position p
OsLayoutFunc(fd, p) ==
    With(IF Len(fd.doc) = 0 THEN Nil ELSE CommentGroup(fd.doc, p), LAMBDA doc :
      With(IF doc = Nil THEN p ELSE doc.end + 1, LAMBDA funcPos :
        With(LayoutCalls(fd.stmts, 1,
               funcPos + Len("func " \o fd.name \o "(err error) {") + Len("\n\t")),
             LAMBDA body :
          [decl |-> [k |-> "FuncDecl", name |-> fd.name, doc |-> doc,
                     pos |-> funcPos, end |-> body.end + Len("\n}")],
           comments |-> OptSeq(doc) \o body.comments,
           nodes |-> body.nodes])))

RECURSIVE OsLayoutFrom(_, _, _)
OsLayoutFrom(fds, i, p) ==
    IF i > Len(fds)
    THEN [decls |-> <<>>, comments |-> <<>>, nodes |-> <<>>, end |-> p - Len("\n\n")]
    ELSE With(OsLayoutFunc(fds[i], p), LAMBDA fn :
           With(OsLayoutFrom(fds, i + 1, fn.decl.end + Len("\n\n")), LAMBDA rest :
             [decls |-> <<fn.decl>> \o rest.decls,
              comments |-> fn.comments \o rest.comments,
              nodes |-> fn.nodes \o rest.nodes,
              end |-> IF i = Len(fds) THEN fn.decl.end ELSE rest.end]))

\* An import spec: [name] "path"
ImportSpec(name, path) ==
    [k |-> "ImportSpec", value |-> Quote(path),
     name |-> IF name = "" THEN Nil ELSE [k |-> "Ident", name |-> name]]

\* The text of the import specs, one a line
RECURSIVE ImportLines(_, _)
ImportLines(imports, i) ==
    IF i > Len(imports) THEN ""
    ELSE "\t" \o (IF imports[i].name = Nil THEN "" ELSE imports[i].name.name \o " ")
           \o imports[i].value \o "\n" \o ImportLines(imports, i + 1)

OsFileHeader(imports) == "package a\n\nimport (\n" \o ImportLines(imports, 1) \o ")\n\n"

\* The *ast.File of a file description: Imports, Decls, Comments, and the
\* nodes inspect.Preorder visits
OsLayout(imports, fds) ==
    With(OsFileHeader(imports), LAMBDA header :
      With(OsLayoutFrom(fds, 1, 1 + Len(header)), LAMBDA body :
        [k |-> "File", pos |-> 1, end |-> body.end, imports |-> imports,
         decls |-> <<[k |-> "GenDecl", doc |-> Nil,
                      pos |-> 1 + Len("package a\n\n"), end |-> Len(header) - 1]>>
                     \o body.decls,
         comments |-> body.comments, nodes |-> body.nodes]))

(***************************************************************************)
(* The files oserrors analyses                                             *)
(***************************************************************************)
err == IdentS("err", ErrorType)

OsStmt(call, lead) == [call |-> call, lead |-> lead]
OsFuncD(name, doc, stmts) == [name |-> name, doc |-> doc, stmts |-> stmts]

\* Import specs of package os: plain, under another name, or none
OsImports == {<<ImportSpec("", "os")>>, <<ImportSpec("myos", "os")>>, <<>>}
\* Import specs of package errors: none, plain, under another name, blank
ErrorsImports ==
    {<<>>, <<ImportSpec("", "errors")>>, <<ImportSpec("stderrors", "errors")>>,
     <<ImportSpec("_", "errors")>>}
\* Import specs of package io/fs: none, plain, under another name
FsImports == {<<>>, <<ImportSpec("", "io/fs")>>, <<ImportSpec("iofs", "io/fs")>>}

ImportLists == {e \o o \o f : e \in ErrorsImports, o \in OsImports, f \in FsImports}

PlainImports == <<ImportSpec("", "fmt"), ImportSpec("", "os")>>

DeprecatedNames == {"IsNotExist", "IsExist", "IsPermission"}

\* Argument lists: none, one, two, and one that is itself a deprecated call
ArgLists ==
    {<<>>, <<err>>, <<err, err>>, <<SelCallS("os", "IsExist", <<err>>)>>,
     <<SelCallS("errors", "Unwrap", <<err>>)>>}

\* Calls: deprecated and other functions of os, under the names os, myos
\* and none, and the same names in another package
MappingCalls ==
    {SelCallS(pkg, sel, args) :
        pkg \in {"os", "myos", "filepath", ""},
        sel \in DeprecatedNames \cup {"IsTimeout", "Getenv"},
        args \in ArgLists}

\* Files of one function with one statement, under every import list
MappingFiles ==
    {OsLayout(imports, <<OsFuncD("f1", <<>>, <<OsStmt(c, NoLead)>>)>>) :
        imports \in ImportLists, c \in MappingCalls}

\* A value between the commas of a directive as written, and the name it
\* stands for
NamePart(raw, name) == [raw |-> raw, name |-> name]

NameParts ==
    {NamePart("ctxnil", "ctxnil"), NamePart(" IsNotExist", "IsNotExist"),
     NamePart("oserrors ", "oserrors"), NamePart("IsExist", "IsExist"),
     NamePart("isnotexist", "isnotexist"), NamePart("", ""), NamePart(" \t", "")}

\* Comment lines by form: a directive with values, the bare directive, and
\* comments that are no directive
EqLine(parts, tail) == [form |-> "eq", parts |-> parts, tail |-> tail]
BareLine(tail) == [form |-> "bare", parts |-> <<>>, tail |-> tail]
OtherLine(text) == [form |-> "none", parts |-> <<>>, tail |-> text]

EqLines ==
    {EqLine(<<a>>, t) : a \in NameParts, t \in {"", " "}}
      \cup {EqLine(<<a, b>>, "") : a \in NameParts, b \in NameParts}
      \cup {EqLine(<<NamePart("IsNotExist", "IsNotExist"), NamePart("", ""),
                     NamePart(" IsExist", "IsExist")>>, "")}

BareLines == {BareLine(t) : t \in {"", " ", "\t"}}

OtherLines ==
    {OtherLine(t) : t \in {"// godernize:ignore", "//godernize:ignore oserrors",
                           "//godernize:ignored", "//godernize:ignore:oserrors",
                           "//Godernize:ignore", "// Test ignore functionality"}}

RECURSIVE JoinRaw(_, _)
JoinRaw(parts, i) ==
    IF i > Len(parts) THEN ""
    ELSE parts[i].raw \o (IF i < Len(parts) THEN "," ELSE "") \o JoinRaw(parts, i + 1)

\* The text of a comment line
RenderLine(d) ==
    CASE d.form = "eq" -> "//godernize:ignore=" \o JoinRaw(d.parts, 1) \o d.tail
      [] d.form = "bare" -> "//godernize:ignore" \o d.tail
      [] OTHER -> d.tail

\* Comment groups: one line of every form, a directive after other lines,
\* and two directives
LineGroups ==
    {<<d>> : d \in EqLines \cup BareLines \cup OtherLines}
      \cup {<<OtherLine("// Test ignore functionality"), OtherLine("//"), d>> :
              d \in {EqLine(<<NamePart("oserrors ", "oserrors")>>, ""), BareLine(""),
                     OtherLine("//godernize:ignored")}}
      \cup {<<EqLine(<<NamePart("IsExist", "IsExist")>>, ""), d>> :
              d \in {EqLine(<<NamePart("ctxnil", "ctxnil")>>, ""), BareLine("")}}

RenderGroup(g) == [i \in DOMAIN g |-> RenderLine(g[i])]

ThreeCalls ==
    <<OsStmt(SelCallS("os", "IsNotExist", <<err>>), NoLead),
      OsStmt(SelCallS("os", "IsExist", <<err>>), NoLead),
      OsStmt(SelCallS("os", "IsPermission", <<err>>), NoLead)>>

\* Files of one function with the three deprecated calls, under every doc
\* comment
DirectiveFiles ==
    {OsLayout(PlainImports, <<OsFuncD("f1", RenderGroup(g), ThreeCalls)>>) :
        g \in LineGroups}

OsLeads ==
    {NoLead}
      \cup {[where |-> "before", list |-> <<t>>, gap |-> g] :
              t \in {"//godernize:ignore=IsExist", "//godernize:ignore",
                     "//godernize:ignore=oserrors", "//godernize:ignore=ctxnil"},
              g \in Gaps}

\* Files of two functions: the first without a directive, with one for a
\* function name, for the analyzer or for everything, and with a comment
\* before its second call
OsScopeFiles ==
    {OsLayout(PlainImports,
              <<OsFuncD("f1", doc,
                        <<OsStmt(SelCallS("os", "IsNotExist", <<err>>), NoLead),
                          OsStmt(SelCallS("os", "IsExist", <<err>>), l),
                          OsStmt(SelCallS("os", "IsPermission", <<err, err>>), NoLead),
                          OsStmt(SelCallS("os", "IsPermission", <<err>>), NoLead)>>),
                OsFuncD("f2", <<>>, ThreeCalls)>>) :
        doc \in {<<>>, <<"//godernize:ignore=IsNotExist">>, <<"//godernize:ignore">>,
                 <<"//godernize:ignore=oserrors">>},
        l \in OsLeads}

OsFiles == MappingFiles \cup DirectiveFiles \cup OsScopeFiles

(***************************************************************************)
(* runner.run(pass) of oserrors: the traversal                             *)
(***************************************************************************)
OsInit ==
    /\ file \in OsFiles
    /\ pc = "start"
    /\ fileMapped = FALSE
    /\ queue = <<>>
    /\ processedExprs = {}
    /\ diags = <<>>
    /\ visited = <<>>

\* pass == nil, or the inspector result is missing: skip the analysis
OsSkip ==
    /\ pc = "start"
    /\ pc' = "done"
    /\ UNCHANGED <<file, fileMapped, queue, processedExprs, diags, visited>>

\* buildFileMap and the start of inspect.Preorder
OsStart ==
    /\ pc = "start"
    /\ \E mapped \in BOOLEAN : fileMapped' = mapped
    /\ queue' = file.nodes
    /\ pc' = "walk"
    /\ UNCHANGED <<file, processedExprs, diags, visited>>

\* The callback of inspect.Preorder for a *ast.CallExpr
VisitCallExpr ==
    /\ pc = "walk"
    /\ queue # <<>>
    /\ Head(queue).k = "CallExpr"
    /\ \E call \in {Head(queue)} :
         \E diagnostic \in {diagnoseCallExpr(FileOf, call)} :
           /\ diags' = IF diagnostic # Nil THEN Append(diags, diagnostic) ELSE diags
           /\ visited' = Append(visited,
                [node |-> call, diag |-> diagnostic, skipped |-> FALSE])
    /\ queue' = Tail(queue)
    /\ UNCHANGED <<file, pc, fileMapped, processedExprs>>

\* inspect.Preorder is over: return nil, nil
OsReturn ==
    /\ pc = "walk"
    /\ queue = <<>>
    /\ pc' = "done"
    /\ UNCHANGED <<file, fileMapped, queue, processedExprs, diags, visited>>

OsNext == OsSkip \/ OsStart \/ VisitCallExpr \/ OsReturn

OsSpec == OsInit /\ [][OsNext]_vars

(***************************************************************************)
(* The run of either analyzer, as the multichecker of cmd/godernizecheck   *)
(* holds both                                                              *)
(***************************************************************************)
EitherInit == Init \/ OsInit

EitherNext == Next \/ OsNext

EitherSpec == EitherInit /\ [][EitherNext]_vars

(***************************************************************************)
(* Two runs of ctxnil's run(pass) side by side, as a driver that analyses  *)
(* two modules at once makes them.  Here every variable is a function of   *)
(* the run: run's locals fileMap and processedExprs, the traversal's       *)
(* position and the diagnostics reported to the run's own pass.            *)
(***************************************************************************)
Runs == {1, 2}

\* The files of the two modules
ConcFiles ==
    {Layout(fds) :
       fds \in {<<FuncD("f1", doc, IfD(BinS("&&", ready, CtxNeNil), "block", NoLead), 0),
                  FuncD("f2", <<>>, AssignD(CtxNeNil, NoLead), 0)>> :
                   doc \in {<<>>, <<"//godernize:ignore=ctxnil">>}}
               \cup {<<FuncD("f1", <<>>, IfD(CtxEqNil, "none", NoLead), 0)>>,
                      <<FuncD("f1", <<>>, AssignD(CtxEqNil, NoLead), 0)>>}}

ConcInit ==
    /\ file \in [Runs -> ConcFiles]
    /\ pc = [r \in Runs |-> "start"]
    /\ fileMapped = [r \in Runs |-> FALSE]
    /\ queue = [r \in Runs |-> <<>>]
    /\ processedExprs = [r \in Runs |-> {}]
    /\ diags = [r \in Runs |-> <<>>]
    /\ visited = [r \in Runs |-> <<>>]

\* A file map that all runs share, with the file of the first run that
\* filled it under the one file name; C17 tells it from FileOfRun
FileOfAnyRun(r) ==
    IF ~fileMapped[r] THEN Nil
    ELSE file[CHOOSE q \in Runs : fileMapped[q] /\ \A o \in Runs : fileMapped[o] => q <= o]

\* file := fileMap[filename], in the file map of run r
FileOfRun(r) == IF fileMapped[r] THEN file[r] ELSE Nil

\* pass == nil, or the inspector result is missing
ConcSkip(r) ==
    /\ pc[r] = "start"
    /\ pc' = [pc EXCEPT ![r] = "done"]
    /\ UNCHANGED <<file, fileMapped, queue, processedExprs, diags, visited>>

\* buildFileMap(pass), make(map[ast.Expr]bool) and the start of Preorder
ConcStart(r) ==
    /\ pc[r] = "start"
    /\ \E mapped \in BOOLEAN : fileMapped' = [fileMapped EXCEPT ![r] = mapped]
    /\ processedExprs' = [processedExprs EXCEPT ![r] = {}]
    /\ queue' = [queue EXCEPT ![r] = file[r].nodes]
    /\ pc' = [pc EXCEPT ![r] = "walk"]
    /\ UNCHANGED <<file, diags, visited>>

\* The callback of run r: case *ast.IfStmt
ConcVisitIfStmt(r) ==
    /\ pc[r] = "walk"
    /\ queue[r] # <<>>
    /\ Head(queue[r]).k = "IfStmt"
    /\ \E node \in {Head(queue[r])} :
         \E diagnostic \in {diagnoseIfStmt(FileOfRun(r), node)} :
           /\ diags' = [diags EXCEPT ![r] =
                          IF diagnostic # Nil THEN Append(@, diagnostic) ELSE @]
           /\ processedExprs' = [processedExprs EXCEPT ![r] =
                          IF diagnostic # Nil /\ node.cond # Nil
                          THEN @ \cup markProcessedExpr(node.cond)
                          ELSE @]
           /\ visited' = [visited EXCEPT ![r] =
                          Append(@, [node |-> node, diag |-> diagnostic,
                                     skipped |-> FALSE])]
    /\ queue' = [queue EXCEPT ![r] = Tail(@)]
    /\ UNCHANGED <<file, pc, fileMapped>>

\* The callback of run r: case *ast.BinaryExpr
ConcVisitBinaryExpr(r) ==
    /\ pc[r] = "walk"
    /\ queue[r] # <<>>
    /\ Head(queue[r]).k = "BinaryExpr"
    /\ \E node \in {Head(queue[r])} :
         \E diagnostic \in {IF node \notin processedExprs[r]
                             THEN diagnoseBinaryExpr(FileOfRun(r), node)
                             ELSE Nil} :
           /\ diags' = [diags EXCEPT ![r] =
                          IF diagnostic # Nil THEN Append(@, diagnostic) ELSE @]
           /\ visited' = [visited EXCEPT ![r] =
                          Append(@, [node |-> node, diag |-> diagnostic,
                                     skipped |-> (node \in processedExprs[r])])]
    /\ queue' = [queue EXCEPT ![r] = Tail(@)]
    /\ UNCHANGED <<file, pc, fileMapped, processedExprs>>

\* Preorder of run r is over: return nil, nil
ConcReturn(r) ==
    /\ pc[r] = "walk"
    /\ queue[r] = <<>>
    /\ pc' = [pc EXCEPT ![r] = "done"]
    /\ UNCHANGED <<file, fileMapped, queue, processedExprs, diags, visited>>

ConcNext ==
    \E r \in Runs :
      \/ ConcSkip(r)
      \/ ConcStart(r)
      \/ ConcVisitIfStmt(r)
      \/ ConcVisitBinaryExpr(r)
      \/ ConcReturn(r)

ConcSpec == ConcInit /\ [][ConcNext]_vars

(***************************************************************************)
(* Properties.  They are stated over visited, the record of every node     *)
(* the traversal has been called back for and of what the callback         *)
(* reported for it.                                                        *)
(***************************************************************************)
\* The suppression check as run made it for a node
Suppressed(node) == shouldIgnore(FileOf, node, "ctxnil")

\* The classifier matches: a context value compared with nil
isSentinel(node) ==
    node.k = "BinaryExpr" /\ analyzeContextNilComparison(node).ctxSide # Nil

\* node lies inside the expression or statement outer
Inside(node, outer) == outer.pos <= node.pos /\ node.end <= outer.end

\* A text without the parentheses around it
RECURSIVE Unparen(_)
Unparen(text) ==
    IF Len(text) >= 2 /\ CharAt(text, 1) = "(" /\ CharAt(text, Len(text)) = ")"
    THEN Unparen(SubSeq(text, 2, Len(text) - 1))
    ELSE text

\* The boolean a fold flagged literal stands for
LiteralValue(fold) == Unparen(fold.NewCondition)

\* fold is a result flagged literal that stands for value
FoldsTo(fold, value) ==
    fold # Nil /\ fold.IsLiteral /\ LiteralValue(fold) = value

\* C1: an if statement that is not suppressed and whose guard folds to a
\* literal is reported with "condition is always true, else clause is
\* unreachable" (true, else branch), "condition is always true" (true, no
\* else), "condition is always false, then clause is unreachable" (false,
\* else branch) or "condition is always false, remove entire if statement"
\* (false, no else).
LiteralFoldMessage(value, hasElse) ==
    CASE value = trueValue /\ hasElse ->
           "condition is always true, else clause is unreachable"
      [] value = trueValue /\ ~hasElse -> "condition is always true"
      [] value = falseValue /\ hasElse ->
           "condition is always false, then clause is unreachable"
      [] value = falseValue /\ ~hasElse ->
           "condition is always false, remove entire if statement"
      [] OTHER -> ""

C1_LiteralFoldMessage ==
    \A i \in DOMAIN visited : \A e \in {visited[i]} :
      (e.node.k = "IfStmt" /\ ~Suppressed(e.node)) =>
        \A fold \in {buildReplacementCondition(e.node.cond)} :
          (fold # Nil /\ fold.IsLiteral) =>
            /\ e.diag # Nil
            /\ e.diag.Message = LiteralFoldMessage(LiteralValue(fold), e.node.else # Nil)

\* C2: for a guard folded to a literal the single edit spans the whole if
\* statement and its new text is the source text of the surviving branch:
\* the body when the guard is always true, the else branch when it is
\* always false, nothing when it is always false and there is no else.
SurvivingText(stmt, value) ==
    IF value = trueValue THEN stmt.body.src
    ELSE IF stmt.else # Nil THEN stmt.else.src
    ELSE ""

C2_LiteralFoldEdit ==
    \A i \in DOMAIN visited : \A e \in {visited[i]} :
      (e.node.k = "IfStmt" /\ ~Suppressed(e.node)) =>
        \A fold \in {buildReplacementCondition(e.node.cond)} :
          (fold # Nil /\ fold.IsLiteral) =>
            /\ e.diag # Nil
            /\ e.diag.TextEdits =
                 <<TextEdit(e.node.pos, e.node.end,
                            SurvivingText(e.node, LiteralValue(fold)))>>

\* C3: a context nil comparison that is visited, not suppressed and not
\* marked processed is reported exactly once, at its start, with the message
\* "context should never be nil, replace '<original>' with '<literal>'",
\* <literal> being false for == and true for !=, and one edit that replaces
\* exactly the comparison with that literal.
BareLiteral(node) == IF node.op = "==" THEN falseValue ELSE trueValue

C3_BareComparison ==
    \A i \in DOMAIN visited : \A e \in {visited[i]} :
      (isSentinel(e.node) /\ ~e.skipped /\ ~Suppressed(e.node)) =>
        /\ e.diag # Nil
        /\ Cardinality({j \in DOMAIN diags : diags[j] = e.diag}) = 1
        /\ e.diag.Pos = e.node.pos
        /\ e.diag.Message =
             "context should never be nil, replace '" \o e.node.src
               \o "' with '" \o BareLiteral(e.node) \o "'"
        /\ e.diag.TextEdits =
             <<TextEdit(e.node.pos, e.node.end, BareLiteral(e.node))>>

\* C4: an if statement that is not suppressed and whose guard folds to a
\* result that is no literal is reported with the connective's message and
\* one edit that replaces exactly the guard with the simplified text; the
\* init statement, the body and the else branch lie outside the edit.
C4_NonLiteralFoldEdit ==
    \A i \in DOMAIN visited : \A e \in {visited[i]} :
      (e.node.k = "IfStmt" /\ ~Suppressed(e.node)) =>
        \A fold \in {buildReplacementCondition(e.node.cond)} :
          (fold # Nil /\ ~fold.IsLiteral) =>
            /\ e.diag # Nil
            /\ e.diag.Message = fold.Message
            /\ HasPrefix(e.diag.Message, "simplify to '")
            /\ e.diag.TextEdits =
                 <<TextEdit(e.node.cond.pos, e.node.cond.end, fold.NewCondition)>>
            /\ \A edit \in {e.diag.TextEdits[1]} :
                 /\ e.node.pos < edit.Pos
                 /\ e.node.init # Nil => e.node.init.end <= edit.Pos
                 /\ edit.End <= e.node.body.pos
                 /\ e.node.else # Nil => edit.End <= e.node.else.pos

\* C4 at work: an if statement with an init statement and an else branch
\* was reported with an edit of its guard
C4_Witness ==
    \E i \in DOMAIN visited :
      /\ visited[i].node.k = "IfStmt"
      /\ visited[i].node.init # Nil
      /\ visited[i].node.else # Nil
      /\ visited[i].diag # Nil
      /\ visited[i].diag.TextEdits[1].Pos = visited[i].node.cond.pos
      /\ visited[i].diag.TextEdits[1].NewText = "ready"

\* C5: in X && Y where an operand folds to literal true and none folds to
\* literal false, the result is the other operand's rendered text with the
\* message "simplify to '<other>' (left side is always true)" or "(right
\* side is always true)", naming the side that is true; dually for X || Y
\* and literal false.  The result is flagged literal only if the other
\* operand's result is, or if its text is spelled true or false.
Rendered(expr, fold) == IF fold # Nil THEN fold.NewCondition ELSE formatExpr(expr)

Collapsed(other, otherFold, side, value) ==
    Rep(other,
        (otherFold # Nil /\ otherFold.IsLiteral) \/ other \in {trueValue, falseValue},
        "simplify to '" \o other \o "' (" \o side \o " side is always " \o value \o ")")

Collapses(node, l, r, unit) ==
    (IF FoldsTo(l, unit) THEN {Collapsed(Rendered(node.Y, r), r, "left", unit)} ELSE {})
      \cup
    (IF FoldsTo(r, unit) THEN {Collapsed(Rendered(node.X, l), l, "right", unit)} ELSE {})

C5_CollapseToOtherSide ==
    \A i \in DOMAIN visited : \A node \in {visited[i].node} :
      (node.k = "BinaryExpr" /\ node.op \in Connectives) =>
        \A l \in {buildReplacementCondition(node.X)} :
          \A r \in {buildReplacementCondition(node.Y)} :
            \A unit \in {IF node.op = "&&" THEN trueValue ELSE falseValue} :
              \A zero \in {IF node.op = "&&" THEN falseValue ELSE trueValue} :
                ( /\ FoldsTo(l, unit) \/ FoldsTo(r, unit)
                  /\ ~FoldsTo(l, zero)
                  /\ ~FoldsTo(r, zero) )
                  => handleBinaryExpr(node) \in Collapses(node, l, r, unit)

\* C6: for a context value c, c == nil and nil == c are both classified as
\* context nil comparisons and fold to literal false, c != nil and nil != c
\* to literal true: the order of the operands does not matter.
Swapped(expr) == [expr EXCEPT !.X = expr.Y, !.Y = expr.X]

ClassifiedAs(expr, c, n) ==
    \A cmp \in {analyzeContextNilComparison(expr)} :
      /\ cmp.ctxSide = c
      /\ cmp.nilSide = n
      /\ cmp.isEqual = (expr.op = "==")

FoldsToBareLiteral(expr) ==
    \A fold \in {handleBinaryExpr(expr)} :
      fold # Nil /\ fold.IsLiteral /\ fold.NewCondition = BareLiteral(expr)

SymmetricOn(expr, c, n) ==
    /\ ClassifiedAs(expr, c, n)
    /\ ClassifiedAs(Swapped(expr), c, n)
    /\ FoldsToBareLiteral(expr)
    /\ FoldsToBareLiteral(Swapped(expr))

C6_ClassifierSymmetry ==
    \A i \in DOMAIN visited : \A node \in {visited[i].node} :
      (node.k = "BinaryExpr" /\ node.op \in {"==", "!="}) =>
        /\ (isContextType(node.X) /\ isNilIdent(node.Y))
             => SymmetricOn(node, node.X, node.Y)
        /\ (isContextType(node.Y) /\ isNilIdent(node.X))
             => SymmetricOn(node, node.Y, node.X)

\* C6 at work: nil == ctx and nil != ctx were visited and reported as the
\* literals false and true
C6_Witness ==
    \E i \in DOMAIN visited :
      /\ visited[i].node.k = "BinaryExpr"
      /\ isNilIdent(visited[i].node.X)
      /\ isContextType(visited[i].node.Y)
      /\ visited[i].node.op = "!="
      /\ visited[i].diag # Nil
      /\ visited[i].diag.TextEdits[1].NewText = trueValue

\* C7: when an if statement is reported for its folded guard, no context
\* nil comparison inside that guard is reported as a bare comparison too.
C7_NoDoubleReport ==
    \A i \in DOMAIN visited : \A j \in DOMAIN visited :
      ( /\ visited[i].node.k = "IfStmt"
        /\ visited[i].diag # Nil
        /\ isSentinel(visited[j].node)
        /\ Inside(visited[j].node, visited[i].node.cond) )
        => visited[j].diag = Nil

\* The function declarations whose doc comment holds a directive for ctxnil
DirectiveFuncs ==
    {d \in {file.decls[i] : i \in DOMAIN file.decls} :
       /\ d.k = "FuncDecl"
       /\ \E ignore \in {ParseIgnore(d.doc)} :
            ignore # Nil /\ ShouldIgnore(ignore, "ctxnil")}

\* The comment groups of the file that hold a directive for ctxnil
DirectiveComments ==
    {cg \in {file.comments[i] : i \in DOMAIN file.comments} :
       \E ignore \in {ParseIgnore(cg)} :
         ignore # Nil /\ ShouldIgnore(ignore, "ctxnil")}

\* The doc comments of the file's declarations
DocComments == {file.decls[i].doc : i \in DOMAIN file.decls} \ {Nil}

InDirectiveFunc(node) == \E d \in DirectiveFuncs : Inside(node, d)

\* cg ends before the node starts, at most the window before it
InWindow(cg, node) == cg.end <= node.pos /\ node.pos - cg.end <= ProximityWindow

\* node lies in a suppression scope of the file for ctxnil
InScope(node) ==
    InDirectiveFunc(node) \/ \E cg \in DirectiveComments : InWindow(cg, node)

\* The callback would report the node if nothing suppressed it
Candidate(e) ==
    \/ e.node.k = "IfStmt" /\ buildReplacementCondition(e.node.cond) # Nil
    \/ isSentinel(e.node) /\ ~e.skipped

\* C8: a comparison or an if statement inside a suppression scope for
\* ctxnil (a function whose doc comment holds a matching directive, or a
\* matching directive comment at most the window before it) yields no
\* diagnostic; for a comparison inside a guard, this includes the diagnostic
\* of the if statement that folds it.
C8_SuppressionPrecedence ==
    fileMapped =>
      \A i \in DOMAIN visited : \A e \in {visited[i]} :
        /\ InScope(e.node) => e.diag = Nil
        /\ e.node.k = "IfStmt" =>
             \A j \in DOMAIN file.nodes : \A c \in {file.nodes[j]} :
               (isSentinel(c) /\ Inside(c, e.node.cond) /\ InScope(c))
                 => e.diag = Nil

\* C9: a directive in a function's doc comment suppresses the matching
\* nodes inside that function and only those: a node outside the function,
\* with no directive comment of its own in the window, is still reported.
C9_DocDirectiveScope ==
    fileMapped =>
      \A i \in DOMAIN visited : \A e \in {visited[i]} :
        Candidate(e) =>
          /\ InDirectiveFunc(e.node) => e.diag = Nil
          /\ ( /\ DirectiveFuncs # {}
               /\ ~InDirectiveFunc(e.node)
               /\ \A cg \in DirectiveComments \ DocComments : ~InWindow(cg, e.node) )
               => e.diag # Nil

\* C10: a directive comment suppresses a node only if it ends before the
\* node starts and at most ProximityWindow (200) characters before it: a
\* node that no function directive covers and whose every directive comment
\* starts after it or ends more than the window before it is reported.
C10_ProximityWindow ==
    \A i \in DOMAIN visited : \A e \in {visited[i]} :
      ( /\ Candidate(e)
        /\ ~InDirectiveFunc(e.node)
        /\ \A cg \in DirectiveComments :
             \/ cg.pos > e.node.pos
             \/ e.node.pos - cg.end > ProximityWindow )
        => e.diag # Nil

\* C10 at work: a directive comment ends one character more than the window
\* before a node of a file the file map resolves, and the node is reported
C10_Witness ==
    /\ fileMapped
    /\ \E i \in DOMAIN visited : \E cg \in DirectiveComments :
         /\ visited[i].node.pos - cg.end = ProximityWindow + 1
         /\ visited[i].diag # Nil

\* The comment groups of the file, the doc comments among them
CommentGroups == {file.comments[i] : i \in DOMAIN file.comments}

\* The directive without names
Blanket == [k |-> "Ignore", Names |-> <<>>]

\* The directive a comment line of a given form stands for
ExpectedLine(d) ==
    CASE d.form = "bare" -> Blanket
      [] d.form = "eq" ->
           IF Len(d.parts) = 1 /\ d.parts[1].name = "" THEN Blanket
           ELSE [k |-> "Ignore", Names |-> [i \in DOMAIN d.parts |-> d.parts[i].name]]
      [] OTHER -> Nil

\* The directive of the first line of a group that is one
RECURSIVE ExpectedFrom(_, _)
ExpectedFrom(g, i) ==
    IF i > Len(g) THEN Nil
    ELSE IF ExpectedLine(g[i]) # Nil THEN ExpectedLine(g[i])
    ELSE ExpectedFrom(g, i + 1)

\* C11: ParseIgnore returns no directive for an absent group and for a
\* group without a comment of the form //godernize:ignore or
\* //godernize:ignore=...; a directive without names for the bare form and
\* for an empty or blank value after =; otherwise a directive with the
\* values between the commas, in their order, each without the whitespace
\* around it.
C11_ParseIgnore ==
    visited # <<>> =>
      /\ ParseIgnore(Nil) = Nil
      /\ \A cg \in CommentGroups : \A g \in LineGroups :
           RenderGroup(g) = cg.list => ParseIgnore(cg) = ExpectedFrom(g, 1)

\* C11 at work: under the doc comment //godernize:ignore=ctxnil, IsNotExist
\* the call of os.IsNotExist was withheld and another call reported
C11_Witness ==
    /\ \E i \in DOMAIN file.decls :
         /\ file.decls[i].doc # Nil
         /\ file.decls[i].doc.list = <<"//godernize:ignore=ctxnil, IsNotExist">>
    /\ \E i \in DOMAIN visited :
         visited[i].node.src = "os.IsNotExist(err)" /\ visited[i].diag = Nil
    /\ \E i \in DOMAIN visited : visited[i].diag # Nil

\* Names to ask a directive about
ProbeNames == {"oserrors", "ctxnil", "IsNotExist", "isnotexist", "IsExist", ""}

\* C12: ShouldIgnore(name) is true for every name when the directive has no
\* names, and otherwise exactly when name is one of its names, compared as
\* strings; HasSpecificRules is true exactly when the directive has names.
C12_ShouldIgnore ==
    visited # <<>> =>
      \A cg \in CommentGroups : \A ig \in {ParseIgnore(cg)} :
        ig # Nil =>
          /\ \A name \in ProbeNames :
               ShouldIgnore(ig, name)
                 = (ig.Names = <<>> \/ \E n \in DOMAIN ig.Names : ig.Names[n] = name)
          /\ HasSpecificRules(ig) = (ig.Names # <<>>)

\* C12 at work: under the doc comment //godernize:ignore=ctxnil, IsNotExist,
\* whose second name matches, and under //godernize:ignore=isnotexist, which
\* differs in case, os.IsNotExist was withheld and reported
C12_Witness ==
    /\ fileMapped
    /\ \E i \in DOMAIN visited : \E d \in DOMAIN file.decls :
         /\ visited[i].node.src = "os.IsNotExist(err)"
         /\ file.decls[d].doc # Nil
         /\ \/ /\ file.decls[d].doc.list = <<"//godernize:ignore=ctxnil, IsNotExist">>
               /\ visited[i].diag = Nil
            \/ /\ file.decls[d].doc.list = <<"//godernize:ignore=isnotexist">>
               /\ visited[i].diag # Nil

(***************************************************************************)
(* Reading a condition text back as a guard: go/parser's expression        *)
(* grammar on identifiers, parentheses and the operators == != && ||, and  *)
(* the types the names have in the analysed function                       *)
(***************************************************************************)
IsIdentChar(c) == c \notin {"", " ", "(", ")", "=", "!", "&", "|"}

RECURSIVE IdentEnd(_, _)
IdentEnd(s, i) ==
    IF i <= Len(s) /\ IsIdentChar(CharAt(s, i)) THEN IdentEnd(s, i + 1) ELSE i

RECURSIVE Tokens(_, _)
Tokens(s, i) ==
    IF i > Len(s) THEN <<>>
    ELSE IF CharAt(s, i) = " " THEN Tokens(s, i + 1)
    ELSE IF CharAt(s, i) \in {"(", ")"} THEN <<CharAt(s, i)>> \o Tokens(s, i + 1)
    ELSE IF IsIdentChar(CharAt(s, i))
    THEN With(IdentEnd(s, i), LAMBDA j : <<SubSeq(s, i, j - 1)>> \o Tokens(s, j))
    ELSE <<SubSeq(s, i, i + 1)>> \o Tokens(s, i + 2)

\* token.Token.Precedence
Precedence(tok) ==
    CASE tok = "||" -> 1
      [] tok = "&&" -> 2
      [] tok \in {"==", "!="} -> 3
      [] OTHER -> 0

\* The type a name has where the guard stands
TypeOfName(name) ==
    CASE name = "ctx" -> CtxType
      [] name = "nil" -> NilType
      [] name = "mc" -> OtherCtxType
      [] name = "err" -> ErrorType
      [] name = "expr" -> NoType
      [] OTHER -> BoolType

RECURSIVE parseBinaryExpr(_, _, _)
RECURSIVE parseBinaryLoop(_, _, _)

\* parser.parseOperand: an identifier or a parenthesized expression
parseOperand(toks, i) ==
    IF toks[i] = "("
    THEN With(parseBinaryExpr(toks, i + 1, 1), LAMBDA x :
           [s |-> ParenS(x.s), i |-> x.i + 1])
    ELSE [s |-> IdentS(toks[i], TypeOfName(toks[i])), i |-> i + 1]

\* parser.parseBinaryExpr(prec1)
parseBinaryExpr(toks, i, prec1) == parseBinaryLoop(toks, parseOperand(toks, i), prec1)

parseBinaryLoop(toks, x, prec1) ==
    IF x.i > Len(toks) THEN x
    ELSE IF Precedence(toks[x.i]) < prec1 THEN x
    ELSE With(parseBinaryExpr(toks, x.i + 1, Precedence(toks[x.i]) + 1), LAMBDA y :
           parseBinaryLoop(toks, [s |-> BinS(toks[x.i], x.s, y.s), i |-> y.i], prec1))

\* The guard a condition text is when read afresh
FreshGuard(text) == Place(parseBinaryExpr(Tokens(text, 1), 1, 1).s, 1)

\* C13: when the simplifier returns a result that is no literal for a guard,
\* running it on that result's text, read as a fresh guard, yields no
\* simplification or the same text.
C13_Idempotence ==
    \A i \in DOMAIN visited : \A e \in {visited[i]} :
      e.node.k = "IfStmt" =>
        \A fold \in {buildReplacementCondition(e.node.cond)} :
          (fold # Nil /\ ~fold.IsLiteral) =>
            \A again \in {buildReplacementCondition(FreshGuard(fold.NewCondition))} :
              again = Nil \/ again.NewCondition = fold.NewCondition

\* C13 at work: a reported guard whose simplified text is a connective of
\* two operands, and a second pass over that text finds nothing to simplify
C13_Witness ==
    \E i \in DOMAIN visited : \E e \in {visited[i]} :
      /\ e.node.k = "IfStmt"
      /\ e.diag # Nil
      /\ \E fold \in {buildReplacementCondition(e.node.cond)} :
           /\ fold # Nil
           /\ ~fold.IsLiteral
           /\ FreshGuard(fold.NewCondition).k = "BinaryExpr"
           /\ FreshGuard(fold.NewCondition).src = fold.NewCondition
           /\ buildReplacementCondition(FreshGuard(fold.NewCondition)) = Nil

\* The import specs of the file for a path
ImportsOf(path) ==
    {i \in DOMAIN file.imports : file.imports[i].value = "\"" \o path \o "\""}

\* The name under which the file imports a path: the name of the first
\* import spec of the path, the package's own name when the spec has none,
\* and absent when the file does not import the path
ImportedAs(path, own, absent) ==
    IF ImportsOf(path) = {} THEN absent
    ELSE With(CHOOSE i \in ImportsOf(path) : \A j \in ImportsOf(path) : i <= j,
              LAMBDA first :
           IF file.imports[first].name = Nil THEN own
           ELSE file.imports[first].name.name)

\* The io/fs error that stands for a deprecated function of os
ErrorFor(f) ==
    CASE f = "IsNotExist" -> "ErrNotExist"
      [] f = "IsExist" -> "ErrExist"
      [] f = "IsPermission" -> "ErrPermission"

\* A call P.F(...) where P is the name under which the file imports os
IsOsCall(call) ==
    /\ call.fun.k = "SelectorExpr"
    /\ call.fun.X.k = "Ident"
    /\ call.fun.X.name = ImportedAs("os", "os", "")

\* An unsuppressed call P.F(arg) of a deprecated F with one argument in a
\* file that was resolved
Deprecated(call) ==
    /\ fileMapped
    /\ IsOsCall(call)
    /\ call.fun.Sel \in {"IsNotExist", "IsExist", "IsPermission"}
    /\ Len(call.args) = 1
    /\ ~osShouldIgnore(file, call, call.fun.Sel)

\* The visited call has exactly one diagnostic, at its start, with the
\* message and the one edit over the call's span that carry the text
ReportedWith(e, text) ==
    /\ e.diag # Nil
    /\ Cardinality({j \in DOMAIN diags : diags[j].Pos = e.node.pos}) = 1
    /\ e.diag.Pos = e.node.pos
    /\ e.diag.Message
         = "os." \o e.node.fun.Sel \o " is deprecated, use " \o text \o " instead"
    /\ e.diag.TextEdits = <<TextEdit(e.node.pos, e.node.end, text)>>

\* Calls of a function of os that is not deprecated yield no diagnostic
OthersSilent ==
    \A i \in DOMAIN visited : \A e \in {visited[i]} :
      (IsOsCall(e.node) /\ e.node.fun.Sel \notin {"IsNotExist", "IsExist", "IsPermission"})
        => e.diag = Nil

UnderDoc(call, line) ==
    \E d \in DOMAIN file.decls :
      /\ file.decls[d].k = "FuncDecl"
      /\ file.decls[d].doc # Nil
      /\ file.decls[d].doc.list = <<line>>
      /\ Inside(call, file.decls[d])

\* A call os.F(arg) of a deprecated F with one argument, in a resolved file,
\* that no comment before it suppresses
Reportable(call) ==
    /\ fileMapped
    /\ IsOsCall(call)
    /\ call.fun.Sel \in {"IsNotExist", "IsExist", "IsPermission"}
    /\ Len(call.args) = 1
    /\ ~osShouldIgnoreFromComment(file, call, call.fun.Sel)

\* C15: in a function whose doc comment is //godernize:ignore=IsNotExist,
\* calls of os.IsNotExist have no diagnostic and calls of os.IsExist and
\* os.IsPermission are reported; under the doc comment //godernize:ignore or
\* //godernize:ignore=oserrors none of the three is reported.
C15_Granularity ==
    \A i \in DOMAIN visited : \A e \in {visited[i]} :
      (IsOsCall(e.node) /\ e.node.fun.Sel \in {"IsNotExist", "IsExist", "IsPermission"}) =>
        /\ UnderDoc(e.node, "//godernize:ignore=IsNotExist") =>
             /\ e.node.fun.Sel = "IsNotExist" => e.diag = Nil
             /\ (e.node.fun.Sel # "IsNotExist" /\ Reportable(e.node)) => e.diag # Nil
        /\ UnderDoc(e.node, "//godernize:ignore") => e.diag = Nil
        /\ UnderDoc(e.node, "//godernize:ignore=oserrors") => e.diag = Nil

\* C15 at work: under //godernize:ignore=IsNotExist the call of
\* os.IsNotExist was withheld and those of os.IsExist and os.IsPermission
\* were reported
C15_Witness ==
    /\ \E i \in DOMAIN visited :
         /\ UnderDoc(visited[i].node, "//godernize:ignore=IsNotExist")
         /\ visited[i].node.src = "os.IsNotExist(err)"
         /\ visited[i].diag = Nil
    /\ \E i \in DOMAIN visited :
         /\ UnderDoc(visited[i].node, "//godernize:ignore=IsNotExist")
         /\ visited[i].node.src = "os.IsExist(err)"
         /\ visited[i].diag # Nil
    /\ \E i \in DOMAIN visited :
         /\ UnderDoc(visited[i].node, "//godernize:ignore=IsNotExist")
         /\ visited[i].node.src = "os.IsPermission(err)"
         /\ visited[i].diag # Nil

\* The nodes the callback has been called with, in order
VisitedNodes == [i \in DOMAIN visited |-> visited[i].node]

\* C16: the run of either analyzer ends with return nil, nil and never with
\* an error; when the pass or the inspector result is missing there are no
\* diagnostics; a deprecated call of os whose argument count is not one, and
\* a call whose file is not resolved, has no diagnostic, and the traversal
\* goes on with the nodes after it.
C16_FailOpen ==
    /\ pc \in {"start", "walk", "done"}
    /\ visited = <<>> => diags = <<>>
    /\ pc = "walk" => VisitedNodes \o queue = file.nodes
    /\ (pc = "done" /\ visited # <<>>) => VisitedNodes = file.nodes
    /\ \A i \in DOMAIN visited : \A e \in {visited[i]} :
         e.node.k = "CallExpr" =>
           /\ ~fileMapped => e.diag = Nil
           /\ Len(e.node.args) # 1 => e.diag = Nil
           /\ e.diag # Nil => e.diag.k = "Diagnostic" /\ Len(e.diag.TextEdits) = 1

\* C16 at work: a call os.IsPermission(err, err) had no diagnostic, the
\* call after it was reported, and the run returned
C16_Witness ==
    /\ pc = "done"
    /\ \E i \in DOMAIN visited : \E j \in DOMAIN visited :
         /\ i < j
         /\ visited[i].node.k = "CallExpr"
         /\ visited[i].node.src = "os.IsPermission(err, err)"
         /\ visited[i].diag = Nil
         /\ visited[j].diag # Nil

\* The diagnostics of a run alone over the first n nodes of a file: the
\* callback applied node after node with its own set of processed nodes
RECURSIVE AloneFrom(_, _, _, _, _, _)
AloneFrom(f, nodes, n, i, processed, out) ==
    IF i > n THEN out
    ELSE IF nodes[i].k = "IfStmt"
    THEN With(diagnoseIfStmt(f, nodes[i]), LAMBDA d :
           AloneFrom(f, nodes, n, i + 1,
                     IF d # Nil /\ nodes[i].cond # Nil
                     THEN processed \cup markProcessedExpr(nodes[i].cond)
                     ELSE processed,
                     IF d # Nil THEN Append(out, d) ELSE out))
    ELSE With(IF nodes[i] \notin processed THEN diagnoseBinaryExpr(f, nodes[i]) ELSE Nil,
              LAMBDA d :
           AloneFrom(f, nodes, n, i + 1, processed,
                     IF d # Nil THEN Append(out, d) ELSE out))

Alone(f, mapped, n) == AloneFrom(IF mapped THEN f ELSE Nil, f.nodes, n, 1, {}, <<>>)

\* C17: when two modules are analysed in any interleaving, the diagnostics
\* of each are, at every moment, those of analysing it alone up to the same
\* node, and at the end those of analysing it alone.
C17_Isolation ==
    \A r \in Runs :
      /\ diags[r] = Alone(file[r], fileMapped[r], Len(visited[r]))
      /\ (pc[r] = "done" /\ visited[r] # <<>>) =>
           diags[r] = Alone(file[r], fileMapped[r], Len(file[r].nodes))

\* C17 at work: both runs are over, each walked its file with the file
\* resolved, the files differ in a directive, and one run reported what the
\* other withheld
C17_Witness ==
    /\ pc = [r \in Runs |-> "done"]
    /\ fileMapped = [r \in Runs |-> TRUE]
    /\ \A r \in Runs : Len(visited[r]) = Len(file[r].nodes)
    /\ file[1].comments # <<>>
    /\ file[2].comments = <<>>
    /\ Len(diags[1]) < Len(diags[2])
    /\ Len(file[1].nodes) = Len(file[2].nodes)

\* The binary expressions in the guards of the if statements visited
VisitedConnectives ==
    UNION {{BinaryNodes(visited[i].node.cond)[n] :
              n \in DOMAIN BinaryNodes(visited[i].node.cond)} :
           i \in {j \in DOMAIN visited : visited[j].node.k = "IfStmt"}}

\* The connective algebra on the operands' results, with the source text
\* for an operand that has none
WithSourceText(expr, leftReplacement, rightReplacement) ==
    IF leftReplacement = Nil /\ rightReplacement = Nil THEN Nil
    ELSE With(IF leftReplacement # Nil THEN leftReplacement.NewCondition
              ELSE expr.X.src, LAMBDA leftExpr :
           With(IF rightReplacement # Nil THEN rightReplacement.NewCondition
                ELSE expr.Y.src, LAMBDA rightExpr :
             IF expr.op = "&&"
             THEN simplifyAndExpr(leftExpr, rightExpr, leftReplacement, rightReplacement)
             ELSE simplifyOrExpr(leftExpr, rightExpr, leftReplacement, rightReplacement)))

\* C18: in a connective where an operand has no simplification result, the
\* operand stands in the new text and in the message as its source text,
\* whatever its shape: identifier, call, literal, negation, parenthesized
\* expression or a comparison with an operand that is no identifier.
C18_OperandSourceText ==
    \A b \in VisitedConnectives :
      (b.op \in {"&&", "||"} /\ ~isSentinel(b)) =>
        handleBinaryExpr(b)
          = WithSourceText(b, buildReplacementCondition(b.X), buildReplacementCondition(b.Y))

\* C19: every result of the simplifier flagged literal has the text true or
\* false, and every other result has a text that reads as an expression of
\* identifiers, parentheses and the operators == != && ||.
C19_ResultInvariant ==
    \A i \in DOMAIN visited : \A e \in {visited[i]} :
      e.node.k = "IfStmt" =>
        \A fold \in {buildReplacementCondition(e.node.cond)} :
          fold # Nil =>
            IF fold.IsLiteral THEN fold.NewCondition \in {"true", "false"}
            ELSE FreshGuard(fold.NewCondition).src = fold.NewCondition

\* C20: X && Y folds to literal false, with the message naming the left or
\* the right side, when an operand's result is literal false, and X || Y
\* folds to literal true when an operand's result is literal true; also
\* when the operand is a parenthesized comparison of a context with nil.
C20_ShortCircuit ==
    \A b \in VisitedConnectives :
      (b.op \in {"&&", "||"} /\ ~isSentinel(b)) =>
        \A value \in {IF b.op = "&&" THEN "false" ELSE "true"} :
          \A l \in {buildReplacementCondition(b.X)} :
            \A r \in {buildReplacementCondition(b.Y)} :
              /\ FoldsTo(l, value) =>
                   handleBinaryExpr(b)
                     = Rep(value, TRUE, "condition is always " \o value
                              \o " (left side is " \o value \o ")")
              /\ (~FoldsTo(l, value) /\ FoldsTo(r, value)) =>
                   handleBinaryExpr(b)
                     = Rep(value, TRUE, "condition is always " \o value
                              \o " (right side is " \o value \o ")")

\* Both operands of the connective have a result flagged literal
BothLiteral(b) ==
    /\ buildReplacementCondition(b.X) # Nil
    /\ buildReplacementCondition(b.X).IsLiteral
    /\ buildReplacementCondition(b.Y) # Nil
    /\ buildReplacementCondition(b.Y).IsLiteral

\* The short-circuit result of a connective for the side that decides it
ShortCircuit(value, side) ==
    Rep(value, TRUE,
        "condition is always " \o value \o " (" \o side \o " side is " \o value \o ")")

\* C21: when both operands of a connective fold to literals, the short
\* circuit goes before the collapse to the other side and the left operand
\* before the right: X && Y with a false operand is literal false with the
\* message of the left side if the left operand is false, else of the right
\* side; dually X || Y with a true operand.
C21_ShortCircuitFirst ==
    \A b \in VisitedConnectives :
      (b.op \in {"&&", "||"} /\ ~isSentinel(b) /\ BothLiteral(b)) =>
        \A value \in {IF b.op = "&&" THEN "false" ELSE "true"} :
          IF FoldsTo(buildReplacementCondition(b.X), value)
          THEN handleBinaryExpr(b) = ShortCircuit(value, "left")
          ELSE FoldsTo(buildReplacementCondition(b.Y), value) =>
                 handleBinaryExpr(b) = ShortCircuit(value, "right")

\* The expression's type is the named type Context of package context
ContextTyped(x) == x.typ = CtxType

\* The expression is the identifier nil
NilNamed(x) == x.k = "Ident" /\ x.name = "nil"

\* A comparison by == or != of a context value with the identifier nil
Applicable(b) ==
    /\ b.op \in {"==", "!="}
    /\ \/ ContextTyped(b.X) /\ NilNamed(b.Y)
       \/ ContextTyped(b.Y) /\ NilNamed(b.X)

\* C22: the classifier answers not applicable, and no literal is produced,
\* whenever the operator is not == or !=, or no operand has the named type
\* Context of package context (an unknown type and a type Context of another
\* package included), or the operand opposite to the context value is not
\* the identifier nil; so for two context values and for a value that is no
\* context compared with nil.
C22_NotApplicable ==
    \A i \in DOMAIN visited : \A e \in {visited[i]} :
      (e.node.k = "BinaryExpr" /\ ~Applicable(e.node)) =>
        /\ analyzeContextNilComparison(e.node)
             = [ctxSide |-> Nil, nilSide |-> Nil, isEqual |-> FALSE]
        /\ e.diag = Nil
        /\ handleBinaryExpr(e.node)
             \notin {comparisonReplacement(e.node, TRUE), comparisonReplacement(e.node, FALSE)}

\* C22 at work: comparisons of a context of another package with nil, of two
\* context values and of a value of unknown type with nil were visited in a
\* resolved file without directives and none was reported
C22_Witness ==
    /\ fileMapped
    /\ file.comments = <<>>
    /\ \E i \in DOMAIN visited :
         /\ visited[i].node.k = "BinaryExpr"
         /\ visited[i].node.src \in {"nil == mc", "ctx != parent", "v == nil"}
         /\ visited[i].diag = Nil
         /\ ~visited[i].skipped

\* The expression and the expressions inside it
RECURSIVE SubExprs(_)
SubExprs(e) ==
    CASE e.k = "BinaryExpr" -> {e} \cup SubExprs(e.X) \cup SubExprs(e.Y)
      [] e.k \in {"ParenExpr", "UnaryExpr"} -> {e} \cup SubExprs(e.X)
      [] e.k = "CallExpr" ->
           {e} \cup (IF Len(e.args) = 0 THEN {} ELSE SubExprs(e.args[1]))
      [] OTHER -> {e}

\* The expressions in the guards of the if statements visited
VisitedGuardExprs ==
    UNION {SubExprs(visited[i].node.cond) :
             i \in {j \in DOMAIN visited : visited[j].node.k = "IfStmt"}}

\* C23: simplifying (E) yields nothing when E yields nothing, and otherwise
\* E's new text in parentheses with E's literal flag and E's message.
C23_Parenthesized ==
    \A p \in VisitedGuardExprs :
      p.k = "ParenExpr" =>
        \A inner \in {buildReplacementCondition(p.X)} :
          \A outer \in {buildReplacementCondition(p)} :
            IF inner = Nil THEN outer = Nil
            ELSE /\ outer # Nil
                 /\ outer.NewCondition = "(" \o inner.NewCondition \o ")"
                 /\ outer.IsLiteral = inner.IsLiteral
                 /\ outer.Message = inner.Message

\* C23 at work: an if statement with the guard (ctx != nil && ready) was
\* reported with the new text (ready) and the message of the inner result
C23_Witness ==
    \E i \in DOMAIN visited : \E e \in {visited[i]} :
      /\ e.node.k = "IfStmt"
      /\ e.node.cond.k = "ParenExpr"
      /\ e.node.cond.src = "(ctx != nil && ready)"
      /\ e.diag # Nil
      /\ e.diag.TextEdits[1].NewText = "(ready)"
      /\ e.diag.Message = buildReplacementCondition(e.node.cond.X).Message

\* A guard built from context nil comparisons, connectives and parentheses
RECURSIVE PureGuard(_)
PureGuard(e) ==
    CASE e.k = "BinaryExpr" ->
           isSentinel(e) \/ (e.op \in {"&&", "||"} /\ PureGuard(e.X) /\ PureGuard(e.Y))
      [] e.k = "ParenExpr" -> PureGuard(e.X)
      [] OTHER -> FALSE

\* The text has a connective with an operand true or false, bare or in
\* parentheses
HasLiteralOperand(text) ==
    \E b \in SubExprs(FreshGuard(text)) :
      /\ b.k = "BinaryExpr"
      /\ b.op \in {"&&", "||"}
      /\ (Unparen(b.X.src) \in {"true", "false"} \/ Unparen(b.Y.src) \in {"true", "false"})

\* C24: whenever the simplifier returns a result that is no literal for a
\* guard built from context nil comparisons, connectives and parentheses,
\* no operand of && or || in the new text is a boolean literal, bare or in
\* parentheses.
C24_SimplestForm ==
    \A i \in DOMAIN visited : \A e \in {visited[i]} :
      (e.node.k = "IfStmt" /\ PureGuard(e.node.cond)) =>
        \A fold \in {buildReplacementCondition(e.node.cond)} :
          (fold # Nil /\ ~fold.IsLiteral) => ~HasLiteralOperand(fold.NewCondition)

\* A line of the comment group is a directive that names the rule or names
\* nothing
LineHits(cg, rule) ==
    \E k \in DOMAIN cg.list :
      \E ig \in {ParseIgnoreLine(cg.list[k])} : ig # Nil /\ ShouldIgnore(ig, rule)

\* A directive candidate of the node has a hit: a line of the doc comment of
\* the function around it, or a line of a comment group close before it
CandidateHits(node, rule) ==
    \/ \E d \in DOMAIN file.decls :
         /\ file.decls[d].k = "FuncDecl"
         /\ Inside(node, file.decls[d])
         /\ file.decls[d].doc # Nil
         /\ LineHits(file.decls[d].doc, rule)
    \/ \E c \in DOMAIN file.comments :
         /\ commentApplies(file.comments[c], node)
         /\ LineHits(file.comments[c], rule)

\* C25: when several directive candidates apply to a node (the doc comment
\* of its function, comment groups close before it, several directive lines
\* in one comment group), each counts on its own: the node is suppressed if
\* any one of them names the rule or names nothing.
C25_AnyHitSuppresses ==
    \A i \in DOMAIN visited : \A e \in {visited[i]} :
      (fileMapped /\ CandidateHits(e.node, "ctxnil")) => e.diag = Nil

\* The guard is the negation of a context nil comparison, in parentheses or
\* not
RECURSIVE Stripped(_)
Stripped(e) == IF e.k = "ParenExpr" THEN Stripped(e.X) ELSE e

NegatedSentinel(cond) == cond.k = "UnaryExpr" /\ isSentinel(Stripped(cond.X))

\* C26: for an if statement whose guard is the negation of a context nil
\* comparison, such as !(ctx == nil), the simplifier yields nothing, the
\* statement has no diagnostic and nothing in its guard is marked processed;
\* the comparison inside is visited afterwards and, unless suppressed,
\* reported on its own as a bare comparison.
C26_NegationKept ==
    \A i \in DOMAIN visited : \A e \in {visited[i]} :
      (e.node.k = "IfStmt" /\ NegatedSentinel(e.node.cond)) =>
        /\ buildReplacementCondition(e.node.cond) = Nil
        /\ e.diag = Nil
        /\ processedExprs \cap SubExprs(e.node.cond) = {}
        /\ \A j \in DOMAIN visited :
             visited[j].node = Stripped(e.node.cond.X) =>
               /\ i < j
               /\ ~visited[j].skipped
               /\ ~Suppressed(visited[j].node) =>
                    /\ visited[j].diag # Nil
                    /\ visited[j].diag.Pos = visited[j].node.pos
                    /\ HasPrefix(visited[j].diag.Message,
                                 "context should never be nil, replace '")
        /\ pc = "done" =>
             \E j \in DOMAIN visited : visited[j].node = Stripped(e.node.cond.X)

\* C26 at work: the traversal is over, the if statement with the guard
\* !(ctx == nil) had no diagnostic and ctx == nil was reported after it
C26_Witness ==
    /\ pc = "done"
    /\ \E i \in DOMAIN visited : \E j \in DOMAIN visited :
         /\ i < j
         /\ visited[i].node.k = "IfStmt"
         /\ visited[i].node.cond.src = "!(ctx == nil)"
         /\ visited[i].diag = Nil
         /\ visited[j].node.k = "BinaryExpr"
         /\ visited[j].node.src = "ctx == nil"
         /\ visited[j].diag # Nil
         /\ visited[j].diag.TextEdits[1].NewText = "false"

\* The operands of a guard whose value the analyzer knows nothing about:
\* everything but the connectives, the negation, the parentheses, the
\* constants true and false and the context nil comparisons
RECURSIVE Atoms(_)
Atoms(e) ==
    CASE e.k = "BinaryExpr" ->
           IF e.op \in {"&&", "||"} THEN Atoms(e.X) \cup Atoms(e.Y)
           ELSE IF isSentinel(e) THEN {}
           ELSE {e.src}
      [] e.k \in {"ParenExpr", "UnaryExpr"} -> Atoms(e.X)
      [] e.k = "Ident" -> IF e.name \in {"true", "false"} THEN {} ELSE {e.src}
      [] OTHER -> {e.src}

\* The value of a guard when every context value is non-nil and the other
\* operands have the values val gives them
RECURSIVE Eval(_, _)
Eval(e, val) ==
    CASE e.k = "BinaryExpr" ->
           IF e.op = "&&" THEN Eval(e.X, val) /\ Eval(e.Y, val)
           ELSE IF e.op = "||" THEN Eval(e.X, val) \/ Eval(e.Y, val)
           ELSE IF isSentinel(e) THEN ~analyzeContextNilComparison(e).isEqual
           ELSE val[e.src]
      [] e.k = "ParenExpr" -> Eval(e.X, val)
      [] e.k = "UnaryExpr" -> ~Eval(e.X, val)
      [] e.k = "Ident" ->
           IF e.name = "true" THEN TRUE
           ELSE IF e.name = "false" THEN FALSE
           ELSE val[e.src]
      [] OTHER -> val[e.src]

GuardValues(e) == {Eval(e, val) : val \in [Atoms(e) -> BOOLEAN]}

\* C27: an if statement reported as always true has a guard that is true
\* for every value of its other operands when every context value is
\* non-nil, and one reported as always false has a guard that is false for
\* every such value, parenthesized guards such as (ctx != nil) included.
C27_SoundLiteral ==
    \A i \in DOMAIN visited : \A e \in {visited[i]} :
      (e.node.k = "IfStmt" /\ e.diag # Nil) =>
        /\ HasPrefix(e.diag.Message, "condition is always true") =>
             GuardValues(e.node.cond) = {TRUE}
        /\ HasPrefix(e.diag.Message, "condition is always false") =>
             GuardValues(e.node.cond) = {FALSE}

\* The if statement's diagnostic is withheld by a directive: the statement
\* is suppressed and its guard simplifies
Withheld(stmt) ==
    /\ stmt.k = "IfStmt"
    /\ stmt.cond # Nil
    /\ Suppressed(stmt)
    /\ buildReplacementCondition(stmt.cond) # Nil

\* C28: when the diagnostic of an if statement is withheld because the
\* statement is suppressed, no context nil comparison inside its guard is
\* reported as a bare comparison in the same traversal.
C28_SuppressionAgrees ==
    \A i \in DOMAIN visited :
      Withheld(visited[i].node) =>
        \A j \in DOMAIN visited :
          (/\ visited[j].node.k = "BinaryExpr"
           /\ visited[j].node \in SubExprs(visited[i].node.cond)
           /\ isSentinel(visited[j].node)) => visited[j].diag = Nil

\* The expressions inside the guards of the if statements reported so far
ReportedGuardExprs ==
    UNION {SubExprs(visited[i].node.cond) :
             i \in {j \in DOMAIN visited :
                      visited[j].node.k = "IfStmt" /\ visited[j].diag # Nil}}

\* The context nil comparisons of the file
Sentinels ==
    {file.nodes[i] : i \in {j \in DOMAIN file.nodes : isSentinel(file.nodes[j])}}

\* The comparison has a diagnostic of its own
ReportedBare(node) ==
    \E j \in DOMAIN visited : visited[j].node = node /\ visited[j].diag # Nil

\* Every comparison that is not suppressed is reported or lies in the guard
\* of a reported if statement, once the traversal is over
Covered ==
    (pc = "done" /\ visited # <<>>) =>
      \A node \in Sentinels :
        ~Suppressed(node) => (ReportedBare(node) \/ node \in ReportedGuardExprs)

\* C29: at the end of a traversal every context nil comparison whose
\* suppression check is false has a diagnostic of its own or lies inside the
\* guard of a reported if statement; a node is in the processed set only if
\* it lies inside the guard of a reported if statement; and the processed
\* set never shrinks.
C29_Coverage ==
    /\ [](Covered /\ processedExprs \subseteq ReportedGuardExprs)
    /\ [][processedExprs \subseteq processedExprs']_vars

\* C29 at work: the traversal of a file is over, with a comparison inside
\* the guard of a reported if statement and marked processed, and another
\* one reported on its own
C29_Witness ==
    /\ pc = "done"
    /\ \E a \in Sentinels : \E b \in Sentinels :
         /\ ~Suppressed(a) /\ ~Suppressed(b)
         /\ a \in processedExprs /\ a \in ReportedGuardExprs /\ ~ReportedBare(a)
         /\ b \notin processedExprs /\ ReportedBare(b)

\* C30: a directive that ParseIgnore returns with names has only names that
\* are not empty and have no whitespace at either end, whatever the comment
\* text, =a,,b and =, included.
C30_NamesClean ==
    visited # <<>> =>
      \A cg \in CommentGroups : \A ig \in {ParseIgnore(cg)} :
        (ig # Nil /\ Len(ig.Names) > 0) =>
          \A k \in DOMAIN ig.Names :
            /\ ig.Names[k] # ""
            /\ TrimSpace(ig.Names[k]) = ig.Names[k]

====
